---- MODULE Spec2Model ----
(***************************************************************************)
(* Map composition of the 2d-tile-splitter repository.                     *)
(*                                                                         *)
(* The repository holds two alternative server programs:                   *)
(*   "service"    - backend/src: routes/maps.ts and routes/tiles.ts in      *)
(*                  front of MapGenerationService (seeded per-cell          *)
(*                  composer, atlas store atlasStorage);                    *)
(*   "singlefile" - the single-file backend: validate, TileExtraction-      *)
(*                  Service, MapGenerationService (structural layouts       *)
(*                  driven by Math.random) and the stores atlases / maps.   *)
(* A behaviour is a run of one of the two programs; `variant` records       *)
(* which one and never changes.  A request is handled to completion by one  *)
(* action; its response stays in `response` until Deliver hands it to the   *)
(* client.                                                                  *)
(*                                                                         *)
(* The tile pipeline (grid detection, tile extraction, feature analysis,    *)
(* classification) and the client's store of the current atlas are         *)
(* specified by TileSpec: `call` is the function applied last with its      *)
(* arguments, `result` what it returned.                                    *)
(*                                                                         *)
(* The browser client (src/js: AppState, TileExtractor, MapGeneratorApp,    *)
(* TopDownMapGenerator, PaintModeHandler) has one action per handler of the *)
(* page: ClientSpec is the page from its load (extraction, selection,       *)
(* assignment, generation), PaintSpec the paint session on a generated map. *)
(***************************************************************************)
EXTENDS Integers, Sequences, FiniteSets, TLC

VARIABLES
  variant,       \* which server program runs
  atlasStorage,  \* service: module-level atlasStorage (atlas id -> atlas)
  atlases,       \* singlefile: const atlases = new Map()
  maps,          \* singlefile: const maps = new Map()
  request,       \* the request handled last
  response,      \* the response to it, in flight to the client
  firstGen,      \* service: the first generated map a client received
  written,       \* singlefile: the object each successful response carried, by id
  call,          \* tile pipeline: the function applied last and its arguments
  result,        \* tile pipeline: what it returned
  currentAtlas,  \* client store: useAppStore's currentAtlas
  appState,      \* browser client: the fields of AppState
  paintModeHandler, \* browser client: PaintModeHandler (isPainting, listeners)
  observed       \* browser client: the pointer events delivered, the pools generated from

tileVars == <<call, result, currentAtlas>>

clientVars == <<appState, paintModeHandler, observed>>

vars == <<variant, atlasStorage, atlases, maps, request, response, firstGen,
          written, call, result, currentAtlas, appState, paintModeHandler, observed>>

----------------------------------------------------------------------------
(* Bounds of the model                                                     *)

MaxWidth   == 9     \* largest width requested with a valid size
MaxHeight  == 8     \* largest height requested with a valid size
MaxSeed    == 1     \* seeds 0..MaxSeed (0 stands for an omitted seed too)
MaxTiles   == 2     \* most tiles of an extracted atlas
MaxAtlases == 1     \* most atlases stored
MaxMaps    == 1     \* most maps stored
MaxPool    == 2     \* most tile ids of one client-supplied pool
MaxUpdates == 2     \* most classification updates of the client's atlas
LargeMapSize == 20  \* side of the large structural maps requested

----------------------------------------------------------------------------
(* Program constants                                                       *)

MIN_MAP_SIZE  == 8
MAX_MAP_SIZE  == 128
MIN_TILE_SIZE == 8
MAX_TILE_SIZE == 128

NULL == "null"

Classifications == {"floor", "wall", "decoration"}
EnvironmentTypes == {"auto", "nature", "dungeon", "city", "abstract"}

AtlasIdPool == <<"a1", "a2", "a3">>
MapIdPool   == <<"m1", "m2", "m3">>
TileIdPool  == <<"t1", "t2", "t3", "t4">>

AtlasIds == {AtlasIdPool[i] : i \in 1..MaxAtlases}
MapIds   == {MapIdPool[i] : i \in 1..MaxMaps}

----------------------------------------------------------------------------
(* Requests and responses                                                  *)

NoLayers == [floors |-> FALSE, walls |-> FALSE, decorations |-> FALSE]
NoPools == [floor |-> <<>>, wall |-> <<>>, decoration |-> <<>>]

NoMap ==
  [id |-> NULL, width |-> 0, height |-> 0, tileSize |-> 0, cells |-> <<>>,
   environmentType |-> NULL, atlasId |-> NULL]

NoAtlas == [id |-> NULL, tiles |-> <<>>]

NoRequest ==
  [route |-> "none", id |-> NULL, classification |-> NULL, width |-> 0, height |-> 0, tileSize |-> 0,
   environmentType |-> NULL, atlasId |-> NULL, enabledLayers |-> NoLayers,
   seed |-> 0, tilesByType |-> NoPools, random |-> <<0, 0>>, image |-> <<>>]

NoResponse == [status |-> 0, error |-> NULL, map |-> NoMap, atlas |-> NoAtlas]

Ok(map, atlas) == [status |-> 200, error |-> NULL, map |-> map, atlas |-> atlas]
Fail(status, message) ==
  [status |-> status, error |-> message, map |-> NoMap, atlas |-> NoAtlas]

Idle == response = NoResponse

NoGen == [request |-> NoRequest, atlas |-> NoAtlas, cells |-> <<>>]

NoWrites == [atlases |-> <<>>, maps |-> <<>>]
NoCall == [fn |-> "none"]
NoResult == [pending |-> TRUE]

(* currentMap = null, paintTileIndex = null *)
NoGrid == <<>>
NoIndex == -1

(* new AppState() *)
NoAppState ==
  [tiles |-> <<>>, selectedTiles |-> <<>>, tileClassifications |-> <<>>,
   currentMap |-> NoGrid, paintMode |-> FALSE, paintTileIndex |-> NoIndex,
   manualClassification |-> NoPools]

(* new PaintModeHandler(): isPainting = false, no listener on the canvas *)
NoPaintModeHandler == [isPainting |-> FALSE, listening |-> FALSE]

NoObserved ==
  [pressed |-> FALSE, events |-> 0, pointer |-> [x |-> 0, y |-> 0],
   tilesByType |-> NoPools, assigned |-> <<>>, reextracted |-> FALSE]

----------------------------------------------------------------------------
(* Math.sin recurrence of createSeededRNG, tabulated.                      *)
(* SinKeys lists the initial states s = seed + x*12345 + y*67890 that the   *)
(* bounded inputs can produce; SinDraws[i] holds the first three values     *)
(* returned by the generator started from SinKeys[i], each the value        *)
(*   s = Math.sin(s) * 10000;  s - Math.floor(s)                            *)
(* evaluated in IEEE doubles and written as the odd numerator m of          *)
(* m / RngDen, the midpoint of the 1e-6 bucket the double falls in.         *)

RngDen == 2000000

SinKeys ==
  << 1, 2, 3, 42, 12346, 12347, 12348, 12387, 24691, 24692,
     24693, 24732, 37036, 37037, 37038, 37077, 49381, 49382, 49383, 49422,
     61726, 61727, 61728, 61767, 67891, 67892, 67893, 67932, 74071, 74072,
     74073, 74112, 80236, 80237, 80238, 80277, 86416, 86417, 86418, 86457,
     92581, 92582, 92583, 92622, 98761, 98762, 98763, 98802, 104926, 104927,
     104928, 104967, 111106, 111107, 111108, 111147, 117271, 117272, 117273, 117312,
     123451, 123452, 123453, 123492, 129616, 129617, 129618, 129657, 135781, 135782,
     135783, 135822, 141961, 141962, 141963, 142002, 148126, 148127, 148128, 148167,
     154306, 154307, 154308, 154347, 160471, 160472, 160473, 160512, 166651, 166652,
     166653, 166692, 172816, 172817, 172818, 172857, 178996, 178997, 178998, 179037,
     185161, 185162, 185163, 185202, 191341, 191342, 191343, 191382, 197506, 197507,
     197508, 197547, 203671, 203672, 203673, 203712, 209851, 209852, 209853, 209892,
     216016, 216017, 216018, 216057, 222196, 222197, 222198, 222237, 228361, 228362,
     228363, 228402, 234541, 234542, 234543, 234582, 240706, 240707, 240708, 240747,
     246886, 246887, 246888, 246927, 253051, 253052, 253053, 253092, 259231, 259232,
     259233, 259272, 265396, 265397, 265398, 265437, 271561, 271562, 271563, 271602,
     277741, 277742, 277743, 277782, 283906, 283907, 283908, 283947, 290086, 290087,
     290088, 290127, 296251, 296252, 296253, 296292, 302431, 302432, 302433, 302472,
     308596, 308597, 308598, 308637, 314776, 314777, 314778, 314817, 320941, 320942,
     320943, 320982, 327121, 327122, 327123, 327162, 333286, 333287, 333288, 333327,
     339451, 339452, 339453, 339492, 345631, 345632, 345633, 345672, 351796, 351797,
     351798, 351837, 357976, 357977, 357978, 358017, 364141, 364142, 364143, 364182,
     370321, 370322, 370323, 370362, 376486, 376487, 376488, 376527, 382666, 382667,
     382668, 382707, 388831, 388832, 388833, 388872, 395011, 395012, 395013, 395052,
     401176, 401177, 401178, 401217, 407341, 407342, 407343, 407382, 413521, 413522,
     413523, 413562, 419686, 419687, 419688, 419727, 425866, 425867, 425868, 425907,
     432031, 432032, 432033, 432072, 438211, 438212, 438213, 438252, 444376, 444377,
     444378, 444417, 450556, 450557, 450558, 450597, 456721, 456722, 456723, 456762,
     462901, 462902, 462903, 462942, 469066, 469067, 469068, 469107, 475231, 475232,
     475233, 475272, 481411, 481412, 481413, 481452, 487576, 487577, 487578, 487617,
     493756, 493757, 493758, 493797, 499921, 499922, 499923, 499962, 506101, 506102,
     506103, 506142, 512266, 512267, 512268, 512307, 518446, 518447, 518448, 518487,
     524611, 524612, 524613, 524652, 530791, 530792, 530793, 530832, 536956, 536957,
     536958, 536997, 543121, 543122, 543123, 543162, 549301, 549302, 549303, 549342,
     555466, 555467, 555468, 555507, 561646, 561647, 561648, 561687, 567811, 567812,
     567813, 567852, 573991, 573992, 573993, 574032, 580156, 580157, 580158, 580197,
     586336, 586337, 586338, 586377, 592501, 592502, 592503, 592542, 598681, 598682,
     598683, 598722, 604846, 604847, 604848, 604887, 611011, 611012, 611013, 611052,
     617191, 617192, 617193, 617232, 623356, 623357, 623358, 623397, 629536, 629537,
     629538, 629577, 635701, 635702, 635703, 635742, 641881, 641882, 641883, 641922,
     648046, 648047, 648048, 648087, 654226, 654227, 654228, 654267, 660391, 660392,
     660393, 660432, 666571, 666572, 666573, 666612, 672736, 672737, 672738, 672777,
     678901, 678902, 678903, 678942, 685081, 685082, 685083, 685122, 691246, 691247,
     691248, 691287, 697426, 697427, 697428, 697467, 703591, 703592, 703593, 703632,
     709771, 709772, 709773, 709812, 715936, 715937, 715938, 715977, 722116, 722117,
     722118, 722157, 728281, 728282, 728283, 728322, 734461, 734462, 734463, 734502,
     740626, 740627, 740628, 740667, 752971, 752972, 752973, 753012, 765316, 765317,
     765318, 765357, 777661, 777662, 777663, 777702, 790006, 790007, 790008, 790047,
     802351, 802352, 802353, 802392 >>

SinDraws ==
  << <<1419697,775103,410629>>, <<1948537,1705367,741983>>, <<400161,392929,1829835>>, <<1569041,1212783,1728811>>,
     <<657491,1166599,1433555>>, <<1663939,765985,342001>>, <<1045651,1735141,1483349>>, <<1215225,585293,370859>>,
     <<1193211,148319,8127>>, <<1108029,1111709,1333479>>, <<1035641,909411,947291>>, <<981311,385027,9967>>,
     <<285629,1898529,236091>>, <<707963,855255,1791935>>, <<911571,449373,1869411>>, <<1538415,350493,72519>>,
     <<126439,190339,888989>>, <<507177,166559,310003>>, <<644277,258539,36787>>, <<368051,1482533,311231>>,
     <<851799,891059,820207>>, <<1498445,995021,1303509>>, <<219605,1443079,1487351>>, <<1786599,976025,488851>>,
     <<1045999,1751807,796749>>, <<477101,1107727,1075975>>, <<967053,829171,659831>>, <<964743,786719,1222961>>,
     <<345509,142049,1928159>>, <<1999089,1148823,789895>>, <<1280005,878371,1481813>>, <<1462165,691493,135889>>,
     <<644285,1306117,1169765>>, <<147311,701785,1049389>>, <<881169,1920859,987061>>, <<197983,897693,787995>>,
     <<1635147,1342413,555885>>, <<1490235,1922201,1838403>>, <<1056875,358315,927519>>, <<1538279,1004579,1258063>>,
     <<664547,1099205,251715>>, <<821109,61125,221803>>, <<508857,1440679,965863>>, <<1707379,1303979,1701729>>,
     <<632767,1090077,1524969>>, <<177185,168455,322379>>, <<1649761,840223,662867>>, <<1133637,1881471,593653>>,
     <<247677,1051597,266361>>, <<1099173,1820739,1695663>>, <<404829,507383,1482455>>, <<1168271,1374541,4709>>,
     <<1933885,95697,748097>>, <<1740167,293197,1182591>>, <<885113,191881,1212213>>, <<538607,420659,1085581>>,
     <<1634521,617341,1744929>>, <<1326741,593487,1013151>>, <<1724355,808613,303675>>, <<1040733,763949,796677>>,
     <<593917,517,1366101>>, <<1742265,1039607,691565>>, <<986477,972399,793529>>, <<1944981,710461,1613641>>,
     <<1524707,777623,1513445>>, <<1337941,1406463,607051>>, <<335607,1398427,1367109>>, <<827589,1216191,1380001>>,
     <<60691,696515,962871>>, <<1756319,916355,1622609>>, <<946595,1168535,1934059>>, <<1146131,166935,1810211>>,
     <<1794183,1802909,1109>>, <<1374347,844035,1214651>>, <<405865,1107253,119387>>, <<273147,1971595,50457>>,
     <<398515,1780007,421903>>, <<1576209,568153,227269>>, <<343753,461869,594937>>, <<1369299,687555,1329835>>,
     <<1066495,1576409,363919>>, <<1046135,1739713,1889129>>, <<1120369,635953,919791>>, <<1642823,1750535,1662045>>,
     <<1258283,875757,1301869>>, <<1485027,1607341,881011>>, <<1836813,826499,65635>>, <<305799,1873497,924039>>,
     <<572795,1718683,1722703>>, <<963267,1701057,111913>>, <<1898947,1293803,1640613>>, <<690257,1950293,994423>>,
     <<896193,165551,951713>>, <<157495,246167,705385>>, <<1458989,931009,131907>>, <<148653,1624161,1474651>>,
     <<1313703,1457779,435427>>, <<684567,1478993,624111>>, <<1744977,518223,1538779>>, <<1620961,1192835,1474457>>,
     <<149821,1662709,1290017>>, <<1694793,238439,1066039>>, <<1032211,1357605,645081>>, <<95299,224311,1769681>>,
     <<344097,1921745,129821>>, <<1717601,1239543,355173>>, <<771639,449919,1188677>>, <<348777,174777,370727>>,
     <<1303157,202421,1553695>>, <<1753565,283979,42923>>, <<477401,599761,1893393>>, <<1469689,595705,1374019>>,
     <<924857,434179,529247>>, <<414411,212175,1352205>>, <<843725,30801,1160139>>, <<760599,1337431,1834595>>,
     <<1074675,1086023,1514311>>, <<486371,1587773,1160293>>, <<730331,1702339,222477>>, <<753601,395361,887313>>,
     <<423317,1508301,1435577>>, <<569255,112133,210237>>, <<827961,1721933,1812881>>, <<260235,1282031,405861>>,
     <<1992623,533621,161835>>, <<312841,1062381,499391>>, <<253201,1714731,160561>>, <<1903907,338841,654349>>,
     <<1880889,1013585,475775>>, <<1888231,926545,1483003>>, <<1065781,824015,1726533>>, <<1215001,840659,1843245>>,
     <<1623527,974777,1929447>>, <<151881,288923,1099529>>, <<1925803,1248879,1583613>>, <<607243,1791713,533317>>,
     <<1713037,314187,306239>>, <<1598615,302147,1509987>>, <<1282451,111323,63225>>, <<1274925,1367959,1632515>>,
     <<1289285,59409,1637861>>, <<201527,183881,15591>>, <<945113,1159781,752211>>, <<1411795,484269,1762107>>,
     <<1840721,202327,59201>>, <<577565,1136525,1406161>>, <<310075,238651,546925>>, <<526003,308077,1188017>>,
     <<1087925,1224715,1456787>>, <<985543,491803,1325183>>, <<415865,1670001,1602485>>, <<408261,40745,1430887>>,
     <<754507,458153,159959>>, <<1760847,1598355,1730667>>, <<112043,969771,1405293>>, <<669999,1460465,1144123>>,
     <<1820669,904259,285749>>, <<621285,1440551,256487>>, <<236705,1242237,520027>>, <<292047,252773,63365>>,
     <<1846203,1910237,1872855>>, <<126147,378307,1729869>>, <<1776377,931193,1495229>>, <<638463,749941,336199>>,
     <<1147791,77377,1223479>>, <<1212385,365575,1811663>>, <<677655,907055,866057>>, <<945687,1266723,492801>>,
     <<1963875,610539,1785677>>, <<1706519,1560351,135573>>, <<160785,269341,956105>>, <<1123387,1868015,1321029>>,
     <<1255491,1200471,964839>>, <<1170435,466629,1846735>>, <<1837713,183987,522793>>, <<712365,1798559,379721>>,
     <<95665,1837175,167203>>, <<1273511,1459403,1318163>>, <<746033,797197,263103>>, <<1486955,1784965,1970655>>,
     <<1310075,1217051,917559>>, <<1074733,1332773,564397>>, <<272909,1203023,1093581>>, <<1665905,634851,83115>>,
     <<1534799,1401439,848421>>, <<960569,1493205,525215>>, <<824519,102887,1454261>>, <<522291,369385,1890609>>,
     <<419309,1333823,1139729>>, <<118429,1604639,1292523>>, <<1512135,1206705,1440537>>, <<897455,1668977,1986257>>,
     <<1937897,249819,1732007>>, <<1730773,1130507,1444873>>, <<1494873,717203,1423339>>, <<1041269,523771,421989>>,
     <<117587,448537,1087409>>, <<38385,1674833,937985>>, <<444321,1350551,1687809>>, <<508995,1892399,1400577>>,
     <<1111619,1049749,443405>>, <<952031,1870079,1427329>>, <<1927577,1821993,825849>>, <<244607,975197,847007>>,
     <<1934035,488983,1294299>>, <<735595,1122931,1090627>>, <<362511,1771033,964877>>, <<1668213,593769,176135>>,
     <<976147,720719,1766821>>, <<1254241,110547,265817>>, <<1509199,437061,607833>>, <<45073,1245665,768371>>,
     <<438697,630217,984065>>, <<1456729,1565925,1713791>>, <<665489,1622445,1462627>>, <<992681,783251,531337>>,
     <<364095,1995073,835463>>, <<448441,1996923,1130765>>, <<866077,37135,868591>>, <<1839167,521269,1232011>>,
     <<1438907,989359,930643>>, <<1262937,1573905,1606213>>, <<1431405,1993135,678735>>, <<1244671,1064485,403349>>,
     <<1478579,356365,929511>>, <<787261,1857433,780697>>, <<468829,1948393,379307>>, <<523567,409683,259019>>,
     <<1636113,318977,1711295>>, <<1239311,1292593,1348645>>, <<1160299,718947,1051239>>, <<1400733,354281,342305>>,
     <<1818677,1821217,551939>>, <<1702905,1515129,770727>>, <<1875057,1539899,1531337>>, <<1257619,1900591,382749>>,
     <<413773,945685,919907>>, <<1549501,817341,1188429>>, <<1186067,78365,1289651>>, <<1804729,1592895,628297>>,
     <<958507,931763,1919427>>, <<1438151,93705,538703>>, <<1312403,384623,93077>>, <<857145,1208839,366055>>,
     <<1063965,1295109,1722915>>, <<837247,176101,1572565>>, <<384919,1704901,731837>>, <<58445,280227,192845>>,
     <<1466963,1689051,1462759>>, <<456303,1039865,1530611>>, <<840387,867049,1201885>>, <<932971,449559,531897>>,
     <<271063,873639,340151>>, <<1646665,787563,1928497>>, <<1892755,532563,751911>>, <<904707,1723749,776545>>,
     <<1604217,841753,1238711>>, <<1998471,345469,554891>>, <<1309687,575725,983281>>, <<834197,1595455,895129>>,
     <<1613915,82261,480873>>, <<709127,539091,374663>>, <<976323,1528543,506505>>, <<633943,483531,618827>>,
     <<1395897,712149,931367>>, <<497889,1694523,1039827>>, <<1675171,694441,1536959>>, <<375473,1490569,341657>>,
     <<1465823,1136941,77231>>, <<813979,65097,1258005>>, <<545777,1257039,610349>>, <<556935,1673997,52741>>,
     <<1635899,1961147,153629>>, <<1648561,893489,1828531>>, <<1244889,1250743,97025>>, <<319179,526123,1859337>>,
     <<196747,1837777,22911>>, <<1915707,455773,1174717>>, <<1545311,257449,920645>>, <<1667539,1979251,1427261>>,
     <<1855869,755789,920151>>, <<1126681,1784263,744393>>, <<828829,1603453,195643>>, <<1179055,1829593,1882303>>,
     <<1449173,1784465,245783>>, <<757273,921927,242195>>, <<1662685,548585,1359069>>, <<514849,1636533,1818087>>,
     <<838643,1228023,1195305>>, <<718393,1518607,1268511>>, <<597393,1952975,79955>>, <<1727133,1717345,1003185>>,
     <<1604167,1773961,472767>>, <<1121623,794129,1538175>>, <<681821,1018759,1727171>>, <<1705345,1345801,1136969>>,
     <<1138587,518313,1856681>>, <<1378969,1435951,1502173>>, <<468909,1577889,705253>>, <<89057,947231,901231>>,
     <<1705459,1263565,1516043>>, <<1090115,978543,1077745>>, <<1234597,1068401,1992937>>, <<1755559,1675145,568539>>,
     <<689009,1581705,101999>>, <<840035,1277561,793717>>, <<1609715,1740009,1560827>>, <<1733109,1236413,251603>>,
     <<680103,888177,73855>>, <<1056099,514435,1483081>>, <<1069529,1690159,1419871>>, <<1601517,1030749,861801>>,
     <<602843,776193,635003>>, <<1173047,1184357,706993>>, <<1257829,13859,496693>>, <<956085,1689205,854981>>,
     <<1964011,1553145,673785>>, <<1180169,1980123,627119>>, <<1846181,1902069,783745>>, <<32111,1855899,1683411>>,
     <<1333071,673085,1479969>>, <<524421,1644095,304995>>, <<1842335,1083815,1531721>>, <<1263539,1548899,1217441>>,
     <<1177403,1149205,1248285>>, <<1543877,695487,1660655>>, <<1746689,667531,1820749>>, <<621933,1041499,1773075>>,
     <<1159345,1148791,776261>>, <<1778889,880669,1276931>>, <<1721303,94595,19997>>, <<920901,1823693,559061>>,
     <<787267,473475,1639197>>, <<36277,939805,380859>>, <<1442881,623305,40703>>, <<62731,965001,440049>>,
     <<1760681,380709,395317>>, <<59211,88997,636855>>, <<1362361,1487643,1956835>>, <<1867521,352499,165907>>,
     <<888529,1849951,1003133>>, <<1578211,1584929,568979>>, <<596643,1082321,790079>>, <<297705,411017,839081>>,
     <<972163,1784425,1540917>>, <<1620031,777227,782519>>, <<1205719,1900571,248477>>, <<144811,1996879,283151>>,
     <<1025493,1220407,1692701>>, <<1663239,1920761,370707>>, <<707125,1156343,1394923>>, <<1418757,1229295,955829>>,
     <<1288295,916599,1506839>>, <<1315403,1701863,966099>>, <<1119207,786173,134717>>, <<1778187,766399,1703889>>,
     <<1395719,1458587,224899>>, <<621777,292809,1483587>>, <<1209453,635003,534079>>, <<1817201,1098079,1556579>>,
     <<688843,1202159,112945>>, <<642675,411551,1856069>>, <<1185123,196731,1651859>>, <<1151787,280417,1350459>>,
     <<1505329,13537,360677>>, <<623667,7037,183391>>, <<215389,1545341,89079>>, <<1749895,577181,52725>>,
     <<830897,1332607,1909949>>, <<1107635,913865,783119>>, <<337267,1778421,1434153>>, <<522945,1996757,394553>>,
     <<1269217,309609,245861>>, <<1614037,917799,1363629>>, <<989763,1774323,232111>>, <<505845,1047793,1465267>>,
     <<108931,1123665,771069>>, <<1186229,443103,45677>>, <<1660829,1915735,1004355>>, <<1533139,527325,1064413>>,
     <<1224021,1578289,1014849>>, <<1577335,1947133,1101451>>, <<511979,311721,700721>>, <<51573,752069,787323>>,
     <<1055055,569691,1710449>>, <<872137,33309,303897>>, <<644317,293567,383161>>, <<1810719,1022707,1829371>>,
     <<212239,597181,1358997>>, <<41703,458983,628195>>, <<1650761,138033,1568959>>, <<456875,1392205,1396731>>,
     <<827955,1876549,159899>>, <<1838171,1412185,207229>>, <<1910043,1287983,1895797>>, <<211963,580477,1722803>>,
     <<570453,432299,1144865>>, <<1010165,92183,1366623>>, <<1990711,770805,1549459>>, <<1929053,1252413,1591407>>,
     <<1177233,1914545,1288647>>, <<163523,1867263,767413>>, <<832185,1076121,331547>>, <<1937965,1221933,1429265>>,
     <<47939,557123,1487857>>, <<1570145,423913,371279>>, <<1064761,1395979,850949>>, <<261085,1557325,1229793>>,
     <<1949555,1239103,1584419>>, <<1068105,739161,1812571>>, <<1928821,872747,977977>>, <<1205681,1385839,1343755>>,
     <<856551,446475,1737247>>, <<1604137,1333077,832059>>, <<460293,1456231,863151>>, <<193769,1489385,493625>>,
     <<128841,447485,612427>>, <<399769,1642243,1795349>>, <<198115,228489,53677>>, <<1745033,1258329,391447>>,
     <<1945887,72007,1845989>>, <<1574737,890199,1716483>>, <<495349,1065971,1787495>>, <<1577187,1282243,1031557>>,
     <<1041513,1691413,244881>>, <<18835,674203,499465>>, <<1327881,810907,648841>>, <<1621607,1215841,940715>>,
     <<1876919,1488835,41933>>, <<35993,196061,1513409>>, <<47191,803135,1605699>>, <<547541,539373,1217461>>,
     <<118725,1367665,155193>>, <<1356245,5433,1569801>>, <<575621,676543,424131>>, <<1265001,995285,866421>>,
     <<526551,676571,794267>>, <<1503425,1165579,872025>>, <<1038831,1509795,1720401>>, <<1125063,806097,781655>>,
     <<1187965,1129477,54933>>, <<842017,1124841,836349>>, <<1972279,387645,389155>>, <<1275201,974981,1616409>>,
     <<397143,1696141,1608549>>, <<1212509,371701,1376043>>, <<433699,78557,315793>>, <<1923403,1340005,1116873>>,
     <<240261,418903,682237>>, <<707161,1503421,1932257>>, <<1279663,961443,7211>>, <<760049,524293,667065>>,
     <<1021977,69051,1786145>>, <<1313123,1879985,1745149>>, <<486261,339353,174033>>, <<78949,1118551,626311>>,
     <<877715,1890613,99807>>, <<1905057,358847,1441421>>, <<1177413,958763,1839431>>, <<27515,54587,437081>>,
     <<112443,1483687,1565953>>, <<430209,651495,1092053>>, <<1350421,322801,1671415>>, <<942969,1021049,1591805>>,
     <<48841,409139,82581>>, <<281031,1240975,1484377>>, <<1268957,1106793,179497>>, <<631489,431965,406869>>,
     <<1313309,95349,1635593>>, <<542973,1382421,75491>>, <<1227929,191401,616501>>, <<575543,483475,1865243>>,
     <<1094783,924239,137039>>, <<724539,733837,1991877>>, <<1595923,1863867,1531149>>, <<1124789,446811,1055741>>,
     <<486955,100207,479605>>, <<187035,644835,1283717>>, <<425295,171953,1028665>>, <<418007,1146581,1588903>>,
     <<1910437,1221799,458505>>, <<871111,979603,287797>>, <<1919053,1851013,1595561>>, <<1955087,1931045,922125>> >>

NatureNoiseTable ==
  << <<0, 150, 299, 445, 589, 727, 861, 988, 1107, 1219, 1321>>,
     <<0, 150, 298, 444, 586, 725, 857, 984, 1103, 1214, 1317>>,
     <<0, 148, 295, 439, 580, 717, 848, 973, 1091, 1201, 1302>>,
     <<0, 145, 289, 431, 569, 703, 832, 955, 1071, 1179, 1278>>,
     <<0, 141, 281, 419, 554, 685, 810, 930, 1043, 1148, 1245>>,
     <<0, 137, 272, 405, 535, 661, 782, 898, 1007, 1109, 1203>>,
     <<0, 131, 260, 387, 512, 633, 749, 860, 965, 1063, 1153>>,
     <<0, 124, 246, 367, 485, 600, 710, 815, 915, 1008, 1094>>,
     <<0, 116, 231, 344, 455, 562, 666, 765, 859, 947, 1028>>,
     <<0, 108, 214, 319, 421, 521, 618, 710, 797, 879, 955>>,
     <<0, 98, 195, 291, 385, 477, 565, 649, 730, 805, 876>> >>

AbstractPatternTable ==
  << <<0, 349, 685, 1000, 1282, 1524, 1716, 1853, 1932, 1950, 1907>>,
     <<150, 491, 817, 1119, 1385, 1609, 1781, 1898, 1956, 1952, 1889>>,
     <<296, 618, 924, 1202, 1445, 1643, 1791, 1884, 1919, 1894, 1812>>,
     <<435, 729, 1004, 1250, 1460, 1627, 1745, 1811, 1822, 1778, 1680>>,
     <<565, 821, 1055, 1261, 1432, 1562, 1647, 1684, 1671, 1608, 1497>>,
     <<682, 891, 1078, 1238, 1364, 1453, 1501, 1507, 1470, 1390, 1270>>,
     <<784, 940, 1074, 1181, 1258, 1302, 1312, 1287, 1226, 1131, 1005>>,
     <<868, 966, 1042, 1094, 1119, 1117, 1088, 1031, 948, 841, 713>>,
     <<933, 970, 987, 981, 953, 905, 836, 750, 647, 530, 401>>,
     <<976, 953, 909, 846, 766, 673, 567, 452, 331, 207, 81>>,
     <<998, 915, 812, 694, 565, 428, 288, 148, 12, -117, -237>> >>

SinTable ==
  [s \in {SinKeys[i] : i \in 1..Len(SinKeys)} |->
     SinDraws[CHOOSE i \in 1..Len(SinKeys) : SinKeys[i] = s]]

(* a generator that is seeded by the first request only *)
createSeededRNG_Shared(seed, x, y) ==
  (IF firstGen = NoGen THEN seed ELSE 42) + x * 12345 + y * 67890

(* createSeededRNG: the closure's initial state *)
createSeededRNG(seed, x, y) == seed + x * 12345 + y * 67890

(* the k-th value returned by the closure created with state s0 *)
rng(s0, k) == SinTable[s0][k]

(* rng() > num/100 for a value r = m / RngDen *)
Gt(r, num) == r * 100 > num * RngDen

(* Math.floor(r * n) *)
FloorMul(r, n) == (r * n) \div RngDen

----------------------------------------------------------------------------
(* MapGenerationService (backend/src/services/MapGenerationService.ts)     *)

(* a lookup that answers an unknown id with an empty atlas *)
getAtlas_Default(atlasId) ==
  IF atlasId \in DOMAIN atlasStorage
    THEN atlasStorage[atlasId] ELSE [id |-> atlasId, tiles |-> <<>>]

getAtlas(atlasId) ==
  IF atlasId \in DOMAIN atlasStorage THEN atlasStorage[atlasId] ELSE NoAtlas

(* an interior-wall predicate that draws at every position *)
shouldBeInteriorWall_Anywhere(x, y, width, height, environmentType, s0) ==
  [result |-> Gt(rng(s0, 1), 50), calls |-> 1]

(* Returns the predicate's value and the number of rng() calls it made. *)
shouldBeInteriorWall(x, y, width, height, environmentType, s0) ==
  CASE environmentType = "dungeon" ->
         IF x % 4 = 0 \/ y % 4 = 0
           THEN [result |-> Gt(rng(s0, 1), 70), calls |-> 1]
           ELSE [result |-> FALSE, calls |-> 0]
    [] environmentType = "city" ->
         IF (x % 8 = 0 /\ y % 8 = 0) \/ (x % 6 = 3 /\ y % 6 = 3)
           THEN [result |-> Gt(rng(s0, 1), 50), calls |-> 1]
           ELSE [result |-> FALSE, calls |-> 0]
    [] environmentType = "nature" ->
         [result |-> Gt(rng(s0, 1), 90), calls |-> 1]
    [] OTHER ->
         [result |-> Gt(rng(s0, 1), 85), calls |-> 1]

(* k is the number of rng() calls made before this one. *)
shouldBeDecoration(x, y, environmentType, s0, k) ==
  CASE environmentType = "nature"  -> Gt(rng(s0, k + 1), 80)
    [] environmentType = "city"    -> Gt(rng(s0, k + 1), 90)
    [] environmentType = "dungeon" -> Gt(rng(s0, k + 1), 95)
    [] OTHER                       -> Gt(rng(s0, k + 1), 85)

(* a perimeter test that takes width and height for the last index *)
isPerimeter_OffByOne(x, y, width, height) ==
  x = 0 \/ x = width \/ y = 0 \/ y = height

isPerimeter(x, y, width, height) ==
  x = 0 \/ x = width - 1 \/ y = 0 \/ y = height - 1

(* a composer that tests the decoration layer before the wall layer *)
generateCell_DecorationFirst(x, y, params, tileSets) ==
  LET environmentType == params.environmentType
      enabledLayers == params.enabledLayers
      s0 == createSeededRNG(IF params.seed = 0 THEN 42 ELSE params.seed, x, y)
      interior == shouldBeInteriorWall(x, y, params.width, params.height,
                                       environmentType, s0)
      isDecoration ==
        enabledLayers.decorations
          /\ shouldBeDecoration(x, y, environmentType, s0, interior.calls)
      isWall == ~isDecoration /\ enabledLayers.walls
                  /\ (isPerimeter(x, y, params.width, params.height) \/ interior.result)
      layer == IF isDecoration THEN "decoration" ELSE IF isWall THEN "wall" ELSE "floor"
      tileSet == tileSets[layer]
      index == FloorMul(rng(s0, interior.calls + 2), Len(tileSet))
  IN  [x |-> x, y |-> y,
       tileId |-> IF index + 1 \in DOMAIN tileSet THEN tileSet[index + 1].id ELSE NULL,
       layer |-> layer]

generateCell(x, y, params, tileSets) ==
  LET width  == params.width
      height == params.height
      environmentType == params.environmentType
      enabledLayers == params.enabledLayers
      s0 == createSeededRNG(IF params.seed = 0 THEN 42 ELSE params.seed, x, y)
      interior == shouldBeInteriorWall(x, y, width, height, environmentType, s0)
      isWall == enabledLayers.walls
                  /\ (isPerimeter(x, y, width, height) \/ interior.result)
      decoTested == ~isWall /\ enabledLayers.decorations
      isDecoration ==
        decoTested /\ shouldBeDecoration(x, y, environmentType, s0, interior.calls)
      calls == interior.calls + (IF decoTested THEN 1 ELSE 0)
      layer == IF isWall THEN "wall" ELSE IF isDecoration THEN "decoration" ELSE "floor"
      tileSet == tileSets[layer]
      index == FloorMul(rng(s0, calls + 1), Len(tileSet))
  IN  IF ~isWall /\ ~isDecoration /\ ~enabledLayers.floors
        THEN [x |-> x, y |-> y, tileId |-> NULL, layer |-> "floor"]
        ELSE [x |-> x, y |-> y,
              tileId |-> IF index + 1 \in DOMAIN tileSet
                           THEN tileSet[index + 1].id ELSE NULL,
              layer |-> layer]

IsFloor(tile) == tile.classification = "floor"
IsWall(tile) == tile.classification = "wall"
IsDecoration(tile) == tile.classification = "decoration"

(* the cells without the fallback to atlas.tiles *)
generateMapCells_NoFallback(params, atlas) ==
  LET tileSets ==
        [floor |-> SelectSeq(atlas.tiles, IsFloor),
         wall |-> SelectSeq(atlas.tiles, IsWall),
         decoration |-> SelectSeq(atlas.tiles, IsDecoration)]
  IN  [y \in 0..(params.height - 1) |->
        [x \in 0..(params.width - 1) |-> generateCell(x, y, params, tileSets)]]

generateMapCells(params, atlas) ==
  LET floorTiles == SelectSeq(atlas.tiles, IsFloor)
      wallTiles == SelectSeq(atlas.tiles, IsWall)
      decorationTiles == SelectSeq(atlas.tiles, IsDecoration)
      tileSets ==
        [floor |-> IF Len(floorTiles) > 0 THEN floorTiles ELSE atlas.tiles,
         wall |-> IF Len(wallTiles) > 0 THEN wallTiles ELSE atlas.tiles,
         decoration |-> IF Len(decorationTiles) > 0 THEN decorationTiles ELSE atlas.tiles]
  IN  [y \in 0..(params.height - 1) |->
        [x \in 0..(params.width - 1) |-> generateCell(x, y, params, tileSets)]]

----------------------------------------------------------------------------
(* singlefile: Math.random                                                  *)
(* The values Math.random() returns during one request form a stream        *)
(* <<a, b>> supplied with the request: the n-th call (n = 0, 1, ...)        *)
(* returns ((a + b * n) % RandDen) / RandDen.                               *)

RandDen == 10

RandomInputs == {<<0, 0>>, <<9, 0>>, <<0, 3>>, <<5, 7>>}

Random(rs, n) == (rs[1] + rs[2] * n) % RandDen

(* Math.random() < tenths / 10 *)
RandLt(r, tenths) == r * 10 < tenths * RandDen

(* Math.floor(Math.random() * m) *)
RandFloor(r, m) == (r * m) \div RandDen

(* tilesByType.<c>; a missing key reads as undefined, which getRandomTile
   treats like an empty list *)
pool(tilesByType, c) == IF c \in DOMAIN tilesByType THEN tilesByType[c] ELSE <<>>

(* getRandomTile: the tile id, and the number n of Math.random calls made so far *)
getRandomTile(tiles, rs, n) ==
  IF Len(tiles) = 0
    THEN [tileId |-> NULL, n |-> n]
    ELSE [tileId |-> tiles[RandFloor(Random(rs, n), Len(tiles)) + 1], n |-> n + 1]

(* a cell that carries its coordinates the other way round *)
Cell_Swapped(x, y, tileId, layer) == [x |-> y, y |-> x, tileId |-> tileId, layer |-> layer]

Cell(x, y, tileId, layer) == [x |-> x, y |-> y, tileId |-> tileId, layer |-> layer]

InBounds(x, y, width, height) == x >= 0 /\ x < width /\ y >= 0 /\ y < height

Min(a, b) == IF a < b THEN a ELSE b
Max(a, b) == IF a > b THEN a ELSE b

(* cells: MapCell[][] built by row.push / cells.push, as the grid indexed
   cells[y][x] from 0 *)
Grid(rows) ==
  [y \in 0..(Len(rows) - 1) |->
     [x \in 0..(Len(rows[y + 1]) - 1) |-> rows[y + 1][x + 1]]]

----------------------------------------------------------------------------
(* singlefile: layouts that decide each cell on its own                     *)
(* The layer of cell (x, y), with n Math.random calls made before it; the   *)
(* result carries the number of calls made after the decision.              *)

basicLayer(x, y, width, height, rs, n) ==
  IF x = 0 \/ x = width - 1 \/ y = 0 \/ y = height - 1
    THEN [layer |-> "wall", n |-> n]
    ELSE IF RandLt(Random(rs, n), 1)
      THEN [layer |-> "decoration", n |-> n + 1]
      ELSE [layer |-> "floor", n |-> n + 1]

natureLayer(x, y, width, height, rs, n) ==
  LET noise == NatureNoiseTable[y + 1][x + 1]
  IN  IF noise > 500
        THEN [layer |-> "wall", n |-> n]
        ELSE IF noise > 200
          THEN IF RandLt(Random(rs, n), 3)
                 THEN [layer |-> "decoration", n |-> n + 1]
                 ELSE [layer |-> "floor", n |-> n + 1]
          ELSE [layer |-> "floor", n |-> n]

abstractLayer(x, y, width, height, rs, n) ==
  LET combined == AbstractPatternTable[y + 1][x + 1]
  IN  IF combined > 1000 THEN [layer |-> "wall", n |-> n]
      ELSE IF combined > 0 THEN [layer |-> "decoration", n |-> n]
      ELSE [layer |-> "floor", n |-> n]

(* kind names the loop body: one of the three layouts above, or the initial
   fill of the dungeon ("wall") and city ("floor") layouts *)
cellLayer(kind, x, y, width, height, rs, n) ==
  CASE kind = "basic" -> basicLayer(x, y, width, height, rs, n)
    [] kind = "nature" -> natureLayer(x, y, width, height, rs, n)
    [] kind = "abstract" -> abstractLayer(x, y, width, height, rs, n)
    [] OTHER -> [layer |-> kind, n |-> n]

(* for (let x = 0; x < width; x++) { ...; row.push({ x, y, tileId, layer }) } *)
RECURSIVE RowLoop(_, _, _, _, _, _, _)
RowLoop(st, kind, y, width, height, tilesByType, rs) ==
  IF st.x >= width
    THEN st
    ELSE LET c == cellLayer(kind, st.x, y, width, height, rs, st.n)
             t == getRandomTile(pool(tilesByType, c.layer), rs, c.n)
         IN  RowLoop([x |-> st.x + 1, n |-> t.n,
                      row |-> Append(st.row, Cell(st.x, y, t.tileId, c.layer))],
                     kind, y, width, height, tilesByType, rs)

(* for (let y = 0; y < height; y++) { const row = [] ...; cells.push(row) } *)
RECURSIVE RowsLoop(_, _, _, _, _, _)
RowsLoop(st, kind, width, height, tilesByType, rs) ==
  IF st.y >= height
    THEN [cells |-> Grid(st.rows), n |-> st.n]
    ELSE LET r == RowLoop([x |-> 0, n |-> st.n, row |-> <<>>], kind, st.y,
                          width, height, tilesByType, rs)
         IN  RowsLoop([y |-> st.y + 1, n |-> r.n, rows |-> Append(st.rows, r.row)],
                      kind, width, height, tilesByType, rs)

CellLayout(kind, width, height, tilesByType, rs) ==
  RowsLoop([y |-> 0, n |-> 0, rows |-> <<>>], kind, width, height, tilesByType, rs)

generateBasicLayout(width, height, tilesByType, rs) ==
  CellLayout("basic", width, height, tilesByType, rs).cells

generateNatureLayout(width, height, tilesByType, rs) ==
  CellLayout("nature", width, height, tilesByType, rs).cells

generateAbstractLayout(width, height, tilesByType, rs) ==
  CellLayout("abstract", width, height, tilesByType, rs).cells

----------------------------------------------------------------------------
(* singlefile: city layout                                                  *)
(* A loop is an operator over the record of what the loop changes: the      *)
(* grid, the number n of Math.random calls made, and the loop variable.     *)

blockSize == 6

(* cells[y][x] = { x, y, tileId: getRandomTile(tiles), layer } *)
PutTile(st, x, y, tiles, layer, rs) ==
  LET t == getRandomTile(tiles, rs, st.n)
  IN  [cells |-> [st.cells EXCEPT ![y][x] = Cell(x, y, t.tileId, layer)], n |-> t.n]

(* a block row whose cells are all wall *)
RECURSIVE CityRow_Solid(_, _, _, _, _, _, _)
CityRow_Solid(st, y, bx, by, width, tilesByType, rs) ==
  IF st.x >= Min(bx + blockSize, width)
    THEN st
    ELSE LET st1 == PutTile(st, st.x, y, pool(tilesByType, "wall"), "wall", rs)
         IN  CityRow_Solid([cells |-> st1.cells, n |-> st1.n, x |-> st.x + 1],
                           y, bx, by, width, tilesByType, rs)

(* for (let x = bx; x < Math.min(bx + blockSize, width); x++) *)
RECURSIVE CityRow(_, _, _, _, _, _, _)
CityRow(st, y, bx, by, width, tilesByType, rs) ==
  IF st.x >= Min(bx + blockSize, width)
    THEN st
    ELSE LET x == st.x
             onWall == x = bx \/ x = bx + blockSize - 1 \/ y = by \/ y = by + blockSize - 1
             st1 == IF onWall
                      THEN PutTile(st, x, y, pool(tilesByType, "wall"), "wall", rs)
                      ELSE IF RandLt(Random(rs, st.n), 2)
                        THEN PutTile([cells |-> st.cells, n |-> st.n + 1], x, y,
                                     pool(tilesByType, "decoration"), "decoration", rs)
                        ELSE [cells |-> st.cells, n |-> st.n + 1]
         IN  CityRow([cells |-> st1.cells, n |-> st1.n, x |-> x + 1],
                     y, bx, by, width, tilesByType, rs)

(* for (let y = by; y < Math.min(by + blockSize, height); y++) *)
RECURSIVE CityBlock(_, _, _, _, _, _, _)
CityBlock(st, bx, by, width, height, tilesByType, rs) ==
  IF st.y >= Min(by + blockSize, height)
    THEN st
    ELSE LET st1 == CityRow([cells |-> st.cells, n |-> st.n, x |-> bx],
                            st.y, bx, by, width, tilesByType, rs)
         IN  CityBlock([cells |-> st1.cells, n |-> st1.n, y |-> st.y + 1],
                       bx, by, width, height, tilesByType, rs)

(* for (let bx = 0; bx < width; bx += blockSize + 2) *)
RECURSIVE CityBlockRow(_, _, _, _, _, _)
CityBlockRow(st, by, width, height, tilesByType, rs) ==
  IF st.bx >= width
    THEN st
    ELSE LET st1 == CityBlock([cells |-> st.cells, n |-> st.n, y |-> by],
                              st.bx, by, width, height, tilesByType, rs)
         IN  CityBlockRow([cells |-> st1.cells, n |-> st1.n, bx |-> st.bx + blockSize + 2],
                          by, width, height, tilesByType, rs)

(* for (let by = 0; by < height; by += blockSize + 2) *)
RECURSIVE CityBlocks(_, _, _, _, _)
CityBlocks(st, width, height, tilesByType, rs) ==
  IF st.by >= height
    THEN st
    ELSE LET st1 == CityBlockRow([cells |-> st.cells, n |-> st.n, bx |-> 0],
                                 st.by, width, height, tilesByType, rs)
         IN  CityBlocks([cells |-> st1.cells, n |-> st1.n, by |-> st.by + blockSize + 2],
                        width, height, tilesByType, rs)

generateCityLayout(width, height, tilesByType, rs) ==
  LET streets == CellLayout("floor", width, height, tilesByType, rs)
  IN  CityBlocks([cells |-> streets.cells, n |-> streets.n, by |-> 0],
                 width, height, tilesByType, rs).cells

----------------------------------------------------------------------------
(* singlefile: dungeon layout                                               *)

(* the cells of a rectangle in the order of  for y { for x { ... } } *)
RectCoords(x0, y0, w, h) ==
  [k \in 1..(w * h) |-> <<x0 + ((k - 1) % w), y0 + ((k - 1) \div w)>>]

(* the loop state after one more step: the grid and the number of
   Math.random calls of cn, and the next value k of the loop variable *)
Step(cn, k) == [cells |-> cn.cells, n |-> cn.n, k |-> k]

(* the assignment of PutTile for coords[1], coords[2], ... in turn, each
   guarded by the bounds check *)
RECURSIVE PutTiles(_, _, _, _, _, _, _)
PutTiles(st, coords, tiles, layer, rs, width, height) ==
  IF st.k > Len(coords)
    THEN st
    ELSE PutTiles(Step(IF InBounds(coords[st.k][1], coords[st.k][2], width, height)
                         THEN PutTile(st, coords[st.k][1], coords[st.k][2],
                                      tiles, layer, rs)
                         ELSE st,
                       st.k + 1),
                  coords, tiles, layer, rs, width, height)

(* rooms.push({ x: roomX, y: roomY, width: roomWidth, height: roomHeight }),
   and i++ *)
PushRoom(cn, st, room) ==
  [cells |-> cn.cells, n |-> cn.n, k |-> st.k + 1, rooms |-> Append(st.rooms, room)]

(* for (let i = 0; i < roomCount; i++): st.k is i, st.rooms[i + 1] is the
   code's rooms[i] *)
RECURSIVE DungeonRooms(_, _, _, _, _, _)
DungeonRooms(st, roomCount, width, height, tilesByType, rs) ==
  IF st.k >= roomCount
    THEN st
    ELSE LET roomWidth == RandFloor(Random(rs, st.n), 6) + 4
             roomHeight == RandFloor(Random(rs, st.n + 1), 6) + 4
             roomX == RandFloor(Random(rs, st.n + 2), width - roomWidth - 2) + 1
             roomY == RandFloor(Random(rs, st.n + 3), height - roomHeight - 2) + 1
         IN  DungeonRooms(
               PushRoom(PutTiles([cells |-> st.cells, n |-> st.n + 4, k |-> 1],
                                 RectCoords(roomX, roomY, roomWidth, roomHeight),
                                 pool(tilesByType, "floor"), "floor", rs, width, height),
                        st,
                        [x |-> roomX, y |-> roomY, width |-> roomWidth,
                         height |-> roomHeight]),
               roomCount, width, height, tilesByType, rs)

CenterX(room) == room.x + (room.width \div 2)
CenterY(room) == room.y + (room.height \div 2)

(* a corridor without its vertical run *)
Corridor_HorizontalOnly(st, prevRoom, currentRoom, width, height, tilesByType, rs) ==
  PutTiles(Step(st, 1),
           RectCoords(Min(CenterX(prevRoom), CenterX(currentRoom)),
                      CenterY(prevRoom),
                      Max(CenterX(prevRoom), CenterX(currentRoom))
                        - Min(CenterX(prevRoom), CenterX(currentRoom)) + 1,
                      1),
           pool(tilesByType, "floor"), "floor", rs, width, height)

(* the horizontal corridor at the previous room's centre row, then the
   vertical corridor at the current room's centre column *)
Corridor(st, prevRoom, currentRoom, width, height, tilesByType, rs) ==
  PutTiles(
    Step(PutTiles(Step(st, 1),
                  RectCoords(Min(CenterX(prevRoom), CenterX(currentRoom)),
                             CenterY(prevRoom),
                             Max(CenterX(prevRoom), CenterX(currentRoom))
                               - Min(CenterX(prevRoom), CenterX(currentRoom)) + 1,
                             1),
                  pool(tilesByType, "floor"), "floor", rs, width, height),
         1),
    RectCoords(CenterX(currentRoom),
               Min(CenterY(prevRoom), CenterY(currentRoom)),
               1,
               Max(CenterY(prevRoom), CenterY(currentRoom))
                 - Min(CenterY(prevRoom), CenterY(currentRoom)) + 1),
    pool(tilesByType, "floor"), "floor", rs, width, height)

(* for (let i = 1; i < rooms.length; i++), with rooms 1-based: st.k runs
   from 2 *)
RECURSIVE DungeonCorridors(_, _, _, _, _, _)
DungeonCorridors(st, rooms, width, height, tilesByType, rs) ==
  IF st.k > Len(rooms)
    THEN st
    ELSE DungeonCorridors(
           Step(Corridor(st, rooms[st.k - 1], rooms[st.k], width, height, tilesByType, rs),
                st.k + 1),
           rooms, width, height, tilesByType, rs)

(* if (Math.random() < 0.7) { ... } for one room; st.n counts the calls made
   before it *)
Decorate(st, decorX, decorY, width, height, tilesByType, rs) ==
  IF ~RandLt(Random(rs, st.n), 7)
    THEN [cells |-> st.cells, n |-> st.n + 1]
    ELSE IF InBounds(decorX, decorY, width, height)
            /\ st.cells[decorY][decorX].layer = "floor"
      THEN PutTile([cells |-> st.cells, n |-> st.n + 3], decorX, decorY,
                   pool(tilesByType, "decoration"), "decoration", rs)
      ELSE [cells |-> st.cells, n |-> st.n + 3]

(* rooms.forEach(room => ...) *)
RECURSIVE DungeonDecorations(_, _, _, _, _, _)
DungeonDecorations(st, rooms, width, height, tilesByType, rs) ==
  IF st.k > Len(rooms)
    THEN st
    ELSE DungeonDecorations(
           Step(Decorate(st,
                         rooms[st.k].x
                           + RandFloor(Random(rs, st.n + 1), rooms[st.k].width - 2) + 1,
                         rooms[st.k].y
                           + RandFloor(Random(rs, st.n + 2), rooms[st.k].height - 2) + 1,
                         width, height, tilesByType, rs),
                st.k + 1),
           rooms, width, height, tilesByType, rs)

(* the corridors and decorations of the rooms carved *)
ConnectRooms(carved, width, height, tilesByType, rs) ==
  DungeonDecorations(
    Step(DungeonCorridors(Step(carved, 2), carved.rooms, width, height, tilesByType, rs), 1),
    carved.rooms, width, height, tilesByType, rs)

(* walls is the grid initialized with walls *)
CarveRooms(walls, width, height, tilesByType, rs) ==
  DungeonRooms([cells |-> walls.cells, n |-> walls.n, k |-> 0, rooms |-> <<>>],
               ((width * height) \div 100) + 2, width, height, tilesByType, rs)

generateDungeonLayout(width, height, tilesByType, rs) ==
  ConnectRooms(CarveRooms(CellLayout("wall", width, height, tilesByType, rs),
                          width, height, tilesByType, rs),
               width, height, tilesByType, rs).cells

generateCells(width, height, tilesByType, environmentType, rs) ==
  CASE environmentType = "dungeon" -> generateDungeonLayout(width, height, tilesByType, rs)
    [] environmentType = "nature" -> generateNatureLayout(width, height, tilesByType, rs)
    [] environmentType = "city" -> generateCityLayout(width, height, tilesByType, rs)
    [] environmentType = "abstract" -> generateAbstractLayout(width, height, tilesByType, rs)
    [] OTHER -> generateBasicLayout(width, height, tilesByType, rs)

----------------------------------------------------------------------------
(* Inputs                                                                  *)

InvalidSizes == {-1, 0, MIN_MAP_SIZE - 1, MAX_MAP_SIZE + 1}
WidthInputs == InvalidSizes \cup MIN_MAP_SIZE..MaxWidth
HeightInputs == InvalidSizes \cup MIN_MAP_SIZE..MaxHeight
TileSizeInputs == {MIN_TILE_SIZE - 1, 32}
EnvironmentInputs == EnvironmentTypes \cup {"cave"}
AtlasIdInputs == AtlasIds \cup {"unknown"}
LayerInputs == [floors : BOOLEAN, walls : BOOLEAN, decorations : BOOLEAN]
AllLayers == [floors |-> TRUE, walls |-> TRUE, decorations |-> TRUE]
SeedInputs == 0..MaxSeed

SeqsUpTo(S, n) == UNION {[1..k -> S] : k \in 0..n}

(* An uploaded image, given by the classifications of its meaningful tiles
   in scan order. *)
ImageInputs == SeqsUpTo(Classifications, MaxTiles)

ImageInputsSF == SeqsUpTo({"floor"}, 1)

FloorIds == <<"f1", "f2", "f3", "f4">>
WallIds == <<"w1", "w2">>
DecorationIds == <<"d1", "d2">>

EmptyObject == [c \in {} |-> <<>>]

(* client-supplied tilesByType: the three pools, or the empty object *)
PoolInputs ==
  {[floor |-> SubSeq(FloorIds, 1, f), wall |-> SubSeq(WallIds, 1, w),
    decoration |-> SubSeq(DecorationIds, 1, d)] :
     f \in 0..MaxPool, w \in 0..1, d \in 0..1} \cup {EmptyObject}

----------------------------------------------------------------------------
(* service: routes/tiles.ts POST /extract and routes/maps.ts POST /generate *)

storeAtlas(atlas) ==
  [id \in DOMAIN atlasStorage \cup {atlas.id} |->
     IF id = atlas.id THEN atlas ELSE atlasStorage[id]]

ExtractRoute ==
  /\ variant = "service"
  /\ Idle
  /\ Cardinality(DOMAIN atlasStorage) < MaxAtlases
  /\ \E image \in ImageInputs :
       LET atlas ==
             [id |-> AtlasIdPool[Cardinality(DOMAIN atlasStorage) + 1],
              tiles |-> [i \in 1..Len(image) |->
                           [id |-> TileIdPool[i], classification |-> image[i]]]]
       IN  /\ atlasStorage' = storeAtlas(atlas)
           /\ response' = Ok(NoMap, atlas)
           /\ request' = [NoRequest EXCEPT !.route = "extract", !.image = image]
  /\ UNCHANGED <<variant, atlases, maps, firstGen, written>>
  /\ UNCHANGED tileVars
  /\ UNCHANGED clientVars

(* a size test without the lower bound *)
isValidMapSize_NoMin(size) == size <= MAX_MAP_SIZE

isValidMapSize(size) == size >= MIN_MAP_SIZE /\ size <= MAX_MAP_SIZE
isValidTileSize(size) == size >= MIN_TILE_SIZE /\ size <= MAX_TILE_SIZE

(* generateMapSchema.validate(req.body) reports no error *)
generateMapSchema(params) ==
  /\ isValidMapSize(params.width)
  /\ isValidMapSize(params.height)
  /\ isValidTileSize(params.tileSize)
  /\ params.environmentType \in EnvironmentTypes
  /\ params.atlasId # NULL

(* MapGenerationService.generateMap: the map returned, or the error thrown *)
generateMap(params, id) ==
  LET atlas == getAtlas(params.atlasId)
  IN  IF atlas = NoAtlas
        THEN [error |-> "Atlas not found", map |-> NoMap]
        ELSE [error |-> NULL,
              map |-> [id |-> id, width |-> params.width, height |-> params.height,
                       tileSize |-> params.tileSize,
                       cells |-> generateMapCells(params, atlas),
                       environmentType |-> params.environmentType,
                       atlasId |-> params.atlasId]]

(* the number of fields of a request that are out of range *)
Rejected(params) ==
  (IF isValidMapSize(params.width) THEN 0 ELSE 1)
  + (IF isValidMapSize(params.height) THEN 0 ELSE 1)
  + (IF isValidTileSize(params.tileSize) THEN 0 ELSE 1)
  + (IF params.environmentType \in EnvironmentTypes THEN 0 ELSE 1)

(* the requests sent to POST /generate: every combination of in-range inputs,
   and requests with one field out of range *)
ServiceRequests ==
  {params \in
     {[NoRequest EXCEPT !.route = "generate", !.width = w, !.height = h,
         !.tileSize = ts, !.environmentType = e, !.atlasId = a,
         !.enabledLayers = l, !.seed = s] :
        w \in WidthInputs, h \in HeightInputs, ts \in TileSizeInputs,
        e \in EnvironmentInputs, a \in AtlasIdInputs, l \in LayerInputs,
        s \in SeedInputs} :
     \/ Rejected(params) = 0
     \/ Rejected(params) = 1 /\ params.enabledLayers = AllLayers /\ params.seed = 0}

GenerateRoute ==
  /\ variant = "service"
  /\ Idle
  /\ \E params \in ServiceRequests :
       LET generated == generateMap(params, MapIdPool[1])
       IN  /\ request' = params
           /\ response' =
                IF ~generateMapSchema(params)
                  THEN Fail(400, "Validation error")
                ELSE IF generated.error # NULL
                  THEN Fail(500, generated.error)
                ELSE Ok(generated.map, NoAtlas)
  /\ UNCHANGED <<variant, atlasStorage, atlases, maps, firstGen, written>>
  /\ UNCHANGED tileVars
  /\ UNCHANGED clientVars


(* the requests sent to POST /generate-map of the single-file backend: every
   combination of in-range inputs, requests with one field out of range, and
   square dungeons and cities of LargeMapSize, which hold six rooms and nine
   blocks *)
SingleFileRequests ==
  {params \in
     {[NoRequest EXCEPT !.route = "generate-map", !.width = w, !.height = h,
         !.tileSize = ts, !.environmentType = e, !.atlasId = a,
         !.tilesByType = t, !.random = rs] :
        w \in WidthInputs, h \in HeightInputs, ts \in TileSizeInputs,
        e \in EnvironmentTypes, a \in AtlasIdInputs, t \in PoolInputs,
        rs \in RandomInputs} :
     \/ Rejected(params) = 0
     \/ Rejected(params) = 1 /\ params.random = <<0, 0>>
          /\ Len(pool(params.tilesByType, "floor")) = 1}
  \cup
  {[NoRequest EXCEPT !.route = "generate-map", !.width = LargeMapSize,
      !.height = LargeMapSize, !.tileSize = 32, !.environmentType = e,
      !.atlasId = a, !.tilesByType = t, !.random = rs] :
     e \in {"dungeon", "city"}, a \in AtlasIdInputs, t \in PoolInputs,
     rs \in RandomInputs}


(* PATCH /:id/classification: req.params.id and req.body.classification; an
   absent classification is the empty string *)
TileIdInputs == {"t1", "unknown"}
ClassificationInputs == Classifications \cup {"water", ""}

PatchClassification ==
  /\ variant = "service"
  /\ Idle
  /\ \E id \in TileIdInputs, classification \in ClassificationInputs :
       /\ request' = [NoRequest EXCEPT !.route = "classification", !.id = id,
                                       !.classification = classification]
       /\ response' = IF id = "" \/ classification = ""
                         THEN Fail(400, "Tile ID and classification are required")
                         ELSE IF classification \notin {"floor", "wall", "decoration"}
                           THEN Fail(400, "Invalid classification type")
                           ELSE Ok(NoMap, NoAtlas)
  /\ UNCHANGED <<variant, atlasStorage, atlases, maps, firstGen, written>>
  /\ UNCHANGED tileVars
  /\ UNCHANGED clientVars
----------------------------------------------------------------------------
(* singlefile: MapGenerationService.generateMap and the routes              *)

Flat(tilesByType) ==
  Len(pool(tilesByType, "floor")) + Len(pool(tilesByType, "wall"))
    + Len(pool(tilesByType, "decoration"))

(* the map returned, or the error thrown *)
generateMapSF(params, id) ==
  LET width == params.width
      height == params.height
      tilesByType == params.tilesByType
      cells == generateCells(width, height, tilesByType, params.environmentType,
                             params.random)
  IN  IF width <= 0 \/ height <= 0
        THEN [error |-> "Invalid map dimensions", map |-> NoMap]
      ELSE IF Cardinality(DOMAIN tilesByType) = 0
        THEN [error |-> "No tiles provided for map generation", map |-> NoMap]
      ELSE IF Flat(tilesByType) = 0
        THEN [error |-> "No tiles available for map generation", map |-> NoMap]
      ELSE IF Cardinality(DOMAIN cells) # height \/ 0 \notin DOMAIN cells
              \/ Cardinality(DOMAIN cells[0]) # width
        THEN [error |-> "Failed to generate valid map cells", map |-> NoMap]
      ELSE [error |-> NULL,
            map |-> [id |-> id, width |-> width, height |-> height,
                     tileSize |-> params.tileSize, cells |-> cells,
                     environmentType |-> params.environmentType,
                     atlasId |-> params.atlasId]]

(* validate.mapGeneration: the message of the error thrown, or NULL *)
validateMapGeneration(data) ==
  IF data.width = 0 \/ data.height = 0 \/ data.tileSize = 0
       \/ data.environmentType = NULL \/ data.atlasId = NULL
    THEN "Missing required fields"
  ELSE IF ~isValidMapSize(data.width) \/ ~isValidMapSize(data.height)
            \/ ~isValidTileSize(data.tileSize)
    THEN "Invalid dimensions"
  ELSE NULL

(* a set that stores nothing *)
Put_Lost(store, id, value) == store

Put(store, id, value) ==
  [k \in DOMAIN store \cup {id} |-> IF k = id THEN value ELSE store[k]]

(* POST /extract-tiles *)
ExtractTiles ==
  /\ variant = "singlefile"
  /\ Idle
  /\ Cardinality(DOMAIN atlases) < MaxAtlases
  /\ \E image \in ImageInputsSF :
       LET atlas ==
             [id |-> AtlasIdPool[Cardinality(DOMAIN atlases) + 1],
              tiles |-> [i \in 1..Len(image) |->
                           [id |-> TileIdPool[i], classification |-> image[i]]]]
       IN  /\ atlases' = Put(atlases, atlas.id, atlas)
           /\ response' = Ok(NoMap, atlas)
           /\ request' = [NoRequest EXCEPT !.route = "extract-tiles", !.image = image]
  /\ UNCHANGED <<variant, atlasStorage, maps, firstGen, written>>
  /\ UNCHANGED tileVars
  /\ UNCHANGED clientVars

(* a POST /generate-map that drops the atlas it generated from *)
GenerateMap_Evicting ==
  /\ variant = "singlefile"
  /\ Idle
  /\ Cardinality(DOMAIN maps) < MaxMaps
  /\ \E params \in SingleFileRequests :
       LET invalid == validateMapGeneration(params)
           generated == generateMapSF(params, MapIdPool[Cardinality(DOMAIN maps) + 1])
       IN  /\ request' = params
           /\ IF invalid # NULL \/ params.atlasId \notin DOMAIN atlases
                   \/ generated.error # NULL
                THEN /\ response' = Fail(400, "null")
                     /\ UNCHANGED <<maps, atlases>>
                ELSE /\ maps' = Put(maps, generated.map.id, generated.map)
                     /\ atlases' = [k \in DOMAIN atlases \ {params.atlasId} |-> atlases[k]]
                     /\ response' = Ok(generated.map, NoAtlas)
  /\ UNCHANGED <<variant, atlasStorage, firstGen, written>>
  /\ UNCHANGED tileVars
  /\ UNCHANGED clientVars

(* POST /generate-map *)
GenerateMap ==
  /\ variant = "singlefile"
  /\ Idle
  /\ Cardinality(DOMAIN maps) < MaxMaps
  /\ \E params \in SingleFileRequests :
       LET invalid == validateMapGeneration(params)
           generated == generateMapSF(params, MapIdPool[Cardinality(DOMAIN maps) + 1])
       IN  /\ request' = params
           /\ IF invalid # NULL
                THEN /\ response' = Fail(400, invalid)
                     /\ UNCHANGED maps
              ELSE IF params.atlasId \notin DOMAIN atlases
                THEN /\ response' = Fail(404, "Atlas not found")
                     /\ UNCHANGED maps
              ELSE IF generated.error # NULL
                THEN /\ response' = Fail(500, generated.error)
                     /\ UNCHANGED maps
              ELSE /\ maps' = Put(maps, generated.map.id, generated.map)
                   /\ response' = Ok(generated.map, NoAtlas)
  /\ UNCHANGED <<variant, atlasStorage, atlases, firstGen, written>>
  /\ UNCHANGED tileVars
  /\ UNCHANGED clientVars


MapIdInputs == MapIds \cup {"unknown"}

(* GET /atlas/:id *)
GetAtlas ==
  /\ variant = "singlefile"
  /\ Idle
  /\ \E id \in AtlasIdInputs :
       /\ request' = [NoRequest EXCEPT !.route = "atlas", !.id = id]
       /\ response' = IF id \in DOMAIN atlases
                         THEN Ok(NoMap, atlases[id])
                         ELSE Fail(404, "Atlas not found")
  /\ UNCHANGED <<variant, atlasStorage, atlases, maps, firstGen, written>>
  /\ UNCHANGED tileVars
  /\ UNCHANGED clientVars

(* GET /map/:id *)
GetMap ==
  /\ variant = "singlefile"
  /\ Idle
  /\ \E id \in MapIdInputs :
       /\ request' = [NoRequest EXCEPT !.route = "map", !.id = id]
       /\ response' = IF id \in DOMAIN maps
                         THEN Ok(maps[id], NoAtlas)
                         ELSE Fail(404, "Map not found")
  /\ UNCHANGED <<variant, atlasStorage, atlases, maps, firstGen, written>>
  /\ UNCHANGED tileVars
  /\ UNCHANGED clientVars
----------------------------------------------------------------------------
(* firstGen keeps the first map of POST /generate, requested with all layers
   enabled, that a client received, with the request and the atlas it was
   generated from *)
Observe ==
  IF firstGen = NoGen /\ request.route = "generate" /\ response.status = 200
       /\ request.enabledLayers = AllLayers
    THEN [request |-> request, atlas |-> getAtlas(request.atlasId),
          cells |-> response.map.cells]
    ELSE firstGen

(* written keeps, by id, the atlas of each successful POST /extract-tiles
   response and the map of each successful POST /generate-map response that
   a client received *)
Carried(history, id, object) ==
  [k \in DOMAIN history \cup {id} |-> IF k = id THEN object ELSE history[k]]

Receive ==
  IF response.status = 200 /\ request.route = "extract-tiles"
    THEN [written EXCEPT !.atlases = Carried(@, response.atlas.id, response.atlas)]
    ELSE IF response.status = 200 /\ request.route = "generate-map"
      THEN [written EXCEPT !.maps = Carried(@, response.map.id, response.map)]
      ELSE written

(* the client receives the response *)
Deliver ==
  /\ ~Idle
  /\ response' = NoResponse
  /\ request' = NoRequest
  /\ firstGen' = Observe
  /\ written' = Receive
  /\ UNCHANGED <<variant, atlasStorage, atlases, maps>>
  /\ UNCHANGED tileVars
  /\ UNCHANGED clientVars

Init ==
  /\ variant \in {"service", "singlefile"}
  /\ atlasStorage = <<>>
  /\ atlases = <<>>
  /\ maps = <<>>
  /\ request = NoRequest
  /\ response = NoResponse
  /\ firstGen = NoGen
  /\ written = NoWrites
  /\ call = NoCall
  /\ result = NoResult
  /\ currentAtlas = NoAtlas
  /\ appState = NoAppState
  /\ paintModeHandler = NoPaintModeHandler
  /\ observed = NoObserved

Next ==
  \/ ExtractRoute
  \/ GenerateRoute
  \/ ExtractTiles
  \/ GenerateMap
  \/ GetAtlas
  \/ GetMap
  \/ PatchClassification
  \/ Deliver

Spec == Init /\ [][Next]_vars

----------------------------------------------------------------------------
(* JavaScript numbers of the tile pipeline.  A number is the exact ratio    *)
(* num / den with den > 0; sums, differences, quotients by a positive       *)
(* integer and comparisons are exact.                                       *)

Num(n) == [num |-> n, den |-> 1]
Ratio(n, d) == [num |-> n, den |-> d]

(* a < b *)
Less(a, b) == a.num * b.den < b.num * a.den

(* a + b, a - b, a / k for an integer k > 0, Math.abs(a) *)
Plus(a, b) == [num |-> a.num * b.den + b.num * a.den, den |-> a.den * b.den]
Minus(a, b) == [num |-> a.num * b.den - b.num * a.den, den |-> a.den * b.den]
Over(a, k) == [num |-> a.num, den |-> a.den * k]
Abs(a) == [num |-> IF a.num < 0 THEN -a.num ELSE a.num, den |-> a.den]

----------------------------------------------------------------------------
(* TileExtractionService: classification of a tile by its features          *)

classifyByColor(color, defaultType) ==
  LET r == color.r
      g == color.g
      b == color.b
      brightness == Over(Plus(Plus(r, g), b), 3)
  IN  IF Less(r, g) /\ Less(b, g) /\ Less(Num(100), g)
        THEN "floor"
        ELSE IF Less(Num(100), r) /\ Less(Num(80), g) /\ Less(b, Num(80))
          THEN "floor"
          ELSE IF Less(brightness, Num(60))
                  \/ (Less(Abs(Minus(r, g)), Num(20))
                      /\ Less(Abs(Minus(g, b)), Num(20))
                      /\ Less(brightness, Num(120)))
            THEN "wall"
            ELSE defaultType

(* a cascade that tests the wall rule before the flat-tile rule *)
classifyTileByFeatures_WallFirst(features) ==
  IF features.edges > 200
       \/ Less(features.brightness, Num(50))
       \/ (Less(features.dominantColor.r, Num(100))
           /\ Less(features.dominantColor.g, Num(100))
           /\ Less(features.dominantColor.b, Num(100)))
    THEN "wall"
    ELSE IF Less(features.variance, Num(30)) /\ features.edges < 50
      THEN classifyByColor(features.dominantColor, "floor")
      ELSE IF Less(Num(100), features.variance) \/ features.colorComplexity > 20
        THEN "decoration"
        ELSE classifyByColor(features.dominantColor, "floor")

classifyTileByFeatures(features) ==
  LET dominantColor == features.dominantColor
      brightness == features.brightness
      variance == features.variance
      edges == features.edges
      colorComplexity == features.colorComplexity
  IN  IF Less(variance, Num(30)) /\ edges < 50
        THEN classifyByColor(dominantColor, "floor")
        ELSE IF edges > 200
                \/ Less(brightness, Num(50))
                \/ (Less(dominantColor.r, Num(100))
                    /\ Less(dominantColor.g, Num(100))
                    /\ Less(dominantColor.b, Num(100)))
          THEN "wall"
          ELSE IF Less(Num(100), variance) \/ colorComplexity > 20
            THEN "decoration"
            ELSE classifyByColor(dominantColor, "floor")

(* a confidence whose brightness bonus does not look at the classification *)
calculateClassificationConfidence_AnyBrightness(features, classification) ==
  Ratio(5 + (IF classification = "floor" /\ Less(features.variance, Num(20))
               THEN 3 ELSE 0)
          + (IF Less(features.brightness, Num(80)) THEN 2 ELSE 0), 10)

(* confidence in tenths: 0.5, += 0.3, += 0.2, then
   Math.min(1.0, Math.max(0.1, confidence)) *)
calculateClassificationConfidence(features, classification) ==
  LET variance == features.variance
      edges == features.edges
      brightness == features.brightness
      first == CASE classification = "floor" -> Less(variance, Num(20))
                 [] classification = "wall" -> edges > 150
                 [] classification = "decoration" -> Less(Num(80), variance)
                 [] OTHER -> FALSE
      second == CASE classification = "floor" ->
                       Less(Num(80), brightness) /\ Less(brightness, Num(200))
                  [] classification = "wall" -> Less(brightness, Num(80))
                  [] classification = "decoration" -> features.colorComplexity > 15
                  [] OTHER -> FALSE
      confidence == 5 + (IF first THEN 3 ELSE 0) + (IF second THEN 2 ELSE 0)
  IN  Ratio(Min(10, Max(1, confidence)), 10)

(* feature vectors around the thresholds of the rules *)
VarianceInputs == {Num(0), Num(19), Num(20), Num(29), Num(30), Num(80), Num(81),
                   Num(100), Num(101), Ratio(59, 2)}
EdgesInputs == {0, 49, 50, 150, 151, 200, 201}
BrightnessInputs == {Num(49), Num(50), Num(79), Num(80), Num(81), Num(199),
                     Num(200), Ratio(161, 2)}
ColorComplexityInputs == {1, 15, 16, 20, 21}

Color(r, g, b) == [r |-> r, g |-> g, b |-> b]
Rgb(r, g, b) == Color(Num(r), Num(g), Num(b))

DominantColorInputs ==
  {Rgb(50, 150, 50), Rgb(100, 101, 100), Rgb(101, 101, 100), Rgb(100, 100, 100),
   Rgb(120, 100, 60), Rgb(101, 81, 79), Rgb(100, 81, 79), Rgb(101, 80, 79),
   Rgb(101, 81, 80), Rgb(59, 59, 59), Rgb(60, 60, 60), Rgb(200, 200, 200),
   Rgb(120, 120, 120), Rgb(119, 120, 119), Rgb(120, 119, 120), Rgb(200, 50, 50),
   Rgb(99, 99, 99), Rgb(0, 0, 255), Rgb(30, 60, 90), Rgb(20, 40, 116),
   Rgb(140, 120, 100), Rgb(99, 99, 100), Rgb(139, 120, 101),
   Color(Ratio(201, 2), Ratio(161, 2), Ratio(159, 2)),
   Color(Ratio(199, 2), Ratio(199, 2), Ratio(199, 2))}

FeatureInputs ==
  {[dominantColor |-> c, brightness |-> br, variance |-> v, edges |-> e,
    hasTransparency |-> FALSE, colorComplexity |-> cc] :
     c \in DominantColorInputs, br \in BrightnessInputs, v \in VarianceInputs,
     e \in EdgesInputs, cc \in ColorComplexityInputs}

(* classifyTileByFeatures(features), then
   calculateClassificationConfidence(features, classification), as
   extractTilesFromGrid applies them to the features of a tile *)
ClassifyTile ==
  /\ call.fn = "classifyTileByFeatures"
  /\ result = NoResult
  /\ LET classification == classifyTileByFeatures(call.features)
     IN  result' = [classification |-> classification,
                    confidence |->
                      calculateClassificationConfidence(call.features, classification)]
  /\ UNCHANGED <<variant, atlasStorage, atlases, maps, request, response,
                 firstGen, written, call, currentAtlas>>
  /\ UNCHANGED clientVars

----------------------------------------------------------------------------
(* TileExtractionService: the grid of an atlas                              *)

(* a list that tries 8x8 before 16x16 *)
commonGrids_EightFirst ==
  <<[cols |-> 8, rows |-> 8], [cols |-> 16, rows |-> 16], [cols |-> 4, rows |-> 4],
    [cols |-> 2, rows |-> 2], [cols |-> 32, rows |-> 32], [cols |-> 12, rows |-> 12],
    [cols |-> 6, rows |-> 6]>>

commonGrids ==
  <<[cols |-> 16, rows |-> 16], [cols |-> 8, rows |-> 8], [cols |-> 4, rows |-> 4],
    [cols |-> 2, rows |-> 2], [cols |-> 32, rows |-> 32], [cols |-> 12, rows |-> 12],
    [cols |-> 6, rows |-> 6]>>

(* Math.floor(a / b) for a >= 0, b > 0 *)
FloorDiv(a, b) == a \div b

(* for (const grid of commonGrids), from commonGrids[i] on *)
RECURSIVE detectFrom(_, _)
detectFrom(image, i) ==
  IF i > Len(commonGrids)
    THEN [cols |-> 4, rows |-> 4,
          tileWidth |-> FloorDiv(image.width, 4),
          tileHeight |-> FloorDiv(image.height, 4)]
    ELSE LET grid == commonGrids[i]
             tileWidth == Ratio(image.width, grid.cols)
             tileHeight == Ratio(image.height, grid.rows)
         IN  IF ~Less(tileWidth, Num(MIN_TILE_SIZE))
                  /\ ~Less(Num(MAX_TILE_SIZE), tileWidth)
                  /\ ~Less(tileHeight, Num(MIN_TILE_SIZE))
                  /\ ~Less(Num(MAX_TILE_SIZE), tileHeight)
                  /\ image.width % grid.cols = 0
                  /\ image.height % grid.rows = 0
               THEN [cols |-> grid.cols, rows |-> grid.rows,
                     tileWidth |-> FloorDiv(image.width, grid.cols),
                     tileHeight |-> FloorDiv(image.height, grid.rows)]
               ELSE detectFrom(image, i + 1)

detectOptimalGrid(image) == detectFrom(image, 1)

(* widths and heights of uploaded images, in pixels *)
ImageSizeInputs ==
  {1, 7, 8, 16, 24, 48, 64, 96, 100, 128, 130, 192, 256, 384, 512, 768, 1024,
   1536, 2048, 4096, 4128}

DetectGrid ==
  /\ call.fn = "detectOptimalGrid"
  /\ result = NoResult
  /\ result' = detectOptimalGrid(call.image)
  /\ UNCHANGED <<variant, atlasStorage, atlases, maps, request, response,
                 firstGen, written, call, currentAtlas>>
  /\ UNCHANGED clientVars

----------------------------------------------------------------------------
(* TileExtractionService: pixels of a tile                                  *)
(* A raw RGBA buffer is the sequence of its pixels; data[i], data[i + 1],   *)
(* data[i + 2], data[i + 3] of the code are the r, g, b, a of one pixel.    *)

Pixel(r, g, b, a) == [r |-> r, g |-> g, b |-> b, a |-> a]

AbsInt(n) == IF n < 0 THEN -n ELSE n

(* data[i + 3] || 255 *)
alpha(pixel) == IF pixel.a = 0 THEN 255 ELSE pixel.a

(* the loop of isMeaningfulTile; colorVariance is kept in thirds *)
RECURSIVE meaningfulLoop(_, _)
meaningfulLoop(st, data) ==
  IF st.i > Len(data)
    THEN st
    ELSE meaningfulLoop(
           [i |-> st.i + 1,
            totalAlpha |-> st.totalAlpha + alpha(data[st.i]),
            colorVariance |-> st.colorVariance
              + AbsInt(data[st.i].r + data[st.i].g + data[st.i].b - 3 * 128)],
           data)

(* avgAlpha > 50 && avgVariance > 5 *)
meaningfulTest(st, pixelCount) ==
  /\ Less(Num(50), Ratio(st.totalAlpha, pixelCount))
  /\ Less(Num(5), Ratio(st.colorVariance, 3 * pixelCount))

isMeaningfulTile(data) ==
  meaningfulTest(meaningfulLoop([i |-> 1, totalAlpha |-> 0, colorVariance |-> 0], data),
                 Len(data))

(* first pass of analyzeTileFeatures; brightness is kept in thirds *)
RECURSIVE firstPass(_, _)
firstPass(st, data) ==
  IF st.i > Len(data)
    THEN st
    ELSE firstPass(
           [i |-> st.i + 1,
            r |-> st.r + data[st.i].r,
            g |-> st.g + data[st.i].g,
            b |-> st.b + data[st.i].b,
            brightness |-> st.brightness + data[st.i].r + data[st.i].g + data[st.i].b,
            hasTransparency |-> st.hasTransparency \/ alpha(data[st.i]) < 255,
            colorCounts |-> st.colorCounts
              \cup {<<data[st.i].r, data[st.i].g, data[st.i].b>>}],
           data)

(* second pass; variance is kept in pixelCount-ths: |red - r / pixelCount| is
   |pixelCount * red - r| / pixelCount.  The brightness step of an edge,
   |(r + g + b) / 3 - (r' + g' + b') / 3| > 30, is compared in thirds. *)
RECURSIVE secondPass(_, _, _)
secondPass(st, sums, data) ==
  IF st.i > Len(data)
    THEN st
    ELSE secondPass(
           [i |-> st.i + 1,
            variance |-> st.variance
              + AbsInt(Len(data) * data[st.i].r - sums.r)
              + AbsInt(Len(data) * data[st.i].g - sums.g)
              + AbsInt(Len(data) * data[st.i].b - sums.b),
            edges |-> st.edges
              + (IF st.i > 1
                    /\ AbsInt((data[st.i].r + data[st.i].g + data[st.i].b)
                              - (data[st.i - 1].r + data[st.i - 1].g + data[st.i - 1].b))
                         > 3 * 30
                   THEN 1 ELSE 0)],
           sums, data)

featuresOf(sums, second, pixelCount) ==
  [dominantColor |-> Color(Ratio(sums.r, pixelCount), Ratio(sums.g, pixelCount),
                           Ratio(sums.b, pixelCount)),
   brightness |-> Ratio(sums.brightness, 3 * pixelCount),
   variance |-> Ratio(second.variance, pixelCount * pixelCount),
   edges |-> second.edges,
   hasTransparency |-> sums.hasTransparency,
   colorComplexity |-> Cardinality(sums.colorCounts)]

secondOf(sums, data) ==
  featuresOf(sums, secondPass([i |-> 1, variance |-> 0, edges |-> 0], sums, data),
             Len(data))

analyzeTileFeatures(data) ==
  secondOf(firstPass([i |-> 1, r |-> 0, g |-> 0, b |-> 0, brightness |-> 0,
                      hasTransparency |-> FALSE, colorCounts |-> {}], data),
           data)

(* pixels of raw buffers: transparent, translucent and opaque ones, with
   r + g + b a multiple of 3 so that the gray value is an integer *)
PixelInputs ==
  {Pixel(0, 0, 0, 0), Pixel(200, 100, 60, 0), Pixel(128, 128, 128, 255),
   Pixel(30, 180, 90, 255), Pixel(130, 133, 136, 255), Pixel(128, 128, 128, 50),
   Pixel(255, 255, 255, 254), Pixel(0, 0, 0, 51)}

MaxPixels == 3      \* most pixels of a raw buffer analysed on its own

BufferInputs == UNION {[1..n -> PixelInputs] : n \in 1..MaxPixels}

AnalyzeTile ==
  /\ call.fn = "analyzeTileFeatures"
  /\ result = NoResult
  /\ result' = analyzeTileFeatures(call.data)
  /\ UNCHANGED <<variant, atlasStorage, atlases, maps, request, response,
                 firstGen, written, call, currentAtlas>>
  /\ UNCHANGED clientVars

CheckMeaningful ==
  /\ call.fn = "isMeaningfulTile"
  /\ result = NoResult
  /\ result' = [meaningful |-> isMeaningfulTile(call.data)]
  /\ UNCHANGED <<variant, atlasStorage, atlases, maps, request, response,
                 firstGen, written, call, currentAtlas>>
  /\ UNCHANGED clientVars

----------------------------------------------------------------------------
(* TileExtractionService: extraction of the tiles of an atlas               *)
(* An image is its width, its height and its pixels; the pixel at (x, y) is *)
(* pattern[((x + y * width) mod Len(pattern)) + 1].  Image pixels are       *)
(* opaque, or transparent black.                                            *)

PixelAt(image, x, y) ==
  image.pattern[((x + y * image.width) % Len(image.pattern)) + 1]

(* calculateGrid; an absent cols or rows is 0 *)
calculateGrid(image, config) ==
  IF config.type \in {"custom", "preset"} /\ config.cols # 0 /\ config.rows # 0
    THEN [cols |-> config.cols, rows |-> config.rows,
          tileWidth |-> FloorDiv(image.width, config.cols),
          tileHeight |-> FloorDiv(image.height, config.rows)]
    ELSE detectOptimalGrid(image)

(* sharp's extract accepts the region: it is not empty and lies inside the
   image *)
Extracts(image, left, top, width, height) ==
  /\ width > 0 /\ height > 0
  /\ left >= 0 /\ top >= 0
  /\ left + width <= image.width
  /\ top + height <= image.height

(* .extract({ left, top, width, height }).resize(size, size, { kernel:
   nearest, fit: 'fill' }): pixel (i, j) of the tile is the pixel of the
   region at (floor(i * width / size), floor(j * height / size)) *)
tileBuffer(image, left, top, width, height, size) ==
  [k \in 1..(size * size) |->
     PixelAt(image,
             left + FloorDiv(((k - 1) % size) * width, size),
             top + FloorDiv(((k - 1) \div size) * height, size))]

(* uuidv4(): the n-th identifier drawn *)
uuidv4(n) == "t" \o ToString(n)

(* const tile: Tile = { id, imageData, classification, confidence, metadata } *)
Tile(id, data, features, classification, sourceX, sourceY, grid) ==
  [id |-> id, imageData |-> data, classification |-> classification,
   confidence |-> calculateClassificationConfidence(features, classification),
   metadata |-> [sourceX |-> sourceX, sourceY |-> sourceY,
                 width |-> grid.tileWidth, height |-> grid.tileHeight]]

classifiedTile(id, data, features, sourceX, sourceY, grid) ==
  Tile(id, data, features, classifyTileByFeatures(features), sourceX, sourceY, grid)

(* if (await this.isMeaningfulTile(tileBuffer)) { ...; tiles.push(tile) } *)
pushTile(tiles, data, sourceX, sourceY, grid) ==
  IF isMeaningfulTile(data)
    THEN Append(tiles, classifiedTile(uuidv4(Len(tiles) + 1), data,
                                      analyzeTileFeatures(data),
                                      sourceX, sourceY, grid))
    ELSE tiles

(* the body of the loops, for the region at (sourceX, sourceY): try { ... }
   catch { skip } *)
extractTile(tiles, image, sourceX, sourceY, grid, targetTileSize) ==
  IF Extracts(image, sourceX, sourceY, grid.tileWidth, grid.tileHeight)
    THEN pushTile(tiles,
                  tileBuffer(image, sourceX, sourceY, grid.tileWidth,
                             grid.tileHeight, targetTileSize),
                  sourceX, sourceY, grid)
    ELSE tiles

(* a scan that visits the regions column by column *)
extractTilesFromGrid_ColumnMajor(image, grid, targetTileSize) ==
  LET RECURSIVE scan(_, _)
      scan(tiles, k) ==
        IF k >= grid.cols * grid.rows
          THEN tiles
          ELSE scan(extractTile(tiles, image, (k \div grid.rows) * grid.tileWidth,
                                (k % grid.rows) * grid.tileHeight, grid,
                                targetTileSize),
                    k + 1)
  IN  scan(<<>>, 0)

(* for (let col = 0; col < grid.cols; col++) *)
RECURSIVE extractCols(_, _, _, _, _)
extractCols(st, row, image, grid, targetTileSize) ==
  IF st.col >= grid.cols
    THEN st
    ELSE extractCols(
           [col |-> st.col + 1,
            tiles |-> extractTile(st.tiles, image, st.col * grid.tileWidth,
                                  row * grid.tileHeight, grid, targetTileSize)],
           row, image, grid, targetTileSize)

(* for (let row = 0; row < grid.rows; row++) *)
RECURSIVE extractRows(_, _, _, _)
extractRows(st, image, grid, targetTileSize) ==
  IF st.row >= grid.rows
    THEN st
    ELSE extractRows(
           [row |-> st.row + 1,
            tiles |-> extractCols([col |-> 0, tiles |-> st.tiles], st.row, image,
                                  grid, targetTileSize).tiles],
           image, grid, targetTileSize)

extractTilesFromGrid(image, grid, targetTileSize) ==
  extractRows([row |-> 0, tiles |-> <<>>], image, grid, targetTileSize).tiles

atlasOf(image, grid, tiles) ==
  [id |-> AtlasIdPool[1],
   originalImage |-> [width |-> image.width, height |-> image.height],
   grid |-> grid, tiles |-> tiles]

gridAtlas(image, grid, tileSize) ==
  atlasOf(image, grid, extractTilesFromGrid(image, grid, tileSize))

extractTiles(image, gridConfig, tileSize) ==
  gridAtlas(image, calculateGrid(image, gridConfig), tileSize)

(* pixels of uploaded images *)
ImagePixelInputs ==
  {Pixel(0, 0, 0, 0), Pixel(128, 128, 128, 255), Pixel(30, 180, 90, 255),
   Pixel(20, 20, 20, 255), Pixel(255, 0, 255, 255)}

MaxPattern == 2     \* longest pixel pattern of an uploaded image
MaxGrid == 3        \* most columns and most rows of a custom grid

PatternInputs == UNION {[1..n -> ImagePixelInputs] : n \in 1..MaxPattern}

ImageInputsTES ==
  {[width |-> w, height |-> h, pattern |-> p] :
     w \in {2, 4}, h \in {1, 2, 4}, p \in PatternInputs}

GridConfigInputs ==
  {[type |-> "custom", cols |-> c, rows |-> r] : c \in 0..MaxGrid, r \in 0..MaxGrid}
    \cup {[type |-> "preset", cols |-> 2, rows |-> 2],
          [type |-> "auto", cols |-> 0, rows |-> 0]}

(* TileExtractionService.extractTiles *)
ApplyExtractTiles ==
  /\ call.fn = "extractTiles"
  /\ result = NoResult
  /\ result' = extractTiles(call.image, call.gridConfig, call.tileSize)
  /\ UNCHANGED <<variant, atlasStorage, atlases, maps, request, response,
                 firstGen, written, call, currentAtlas>>
  /\ UNCHANGED clientVars

----------------------------------------------------------------------------
(* Single-file backend: TileExtractionService                               *)
(* An image of the single-file backend has one colour and no alpha channel, *)
(* so that every tile cut from it, resized with any kernel, has that colour *)
(* in each pixel; a raw buffer is the sequence of its bytes.                *)

calculateGridSF(imageDimensions, config) ==
  IF config.type \in {"custom", "preset"} /\ config.cols # 0 /\ config.rows # 0
    THEN [cols |-> config.cols, rows |-> config.rows,
          tileWidth |-> FloorDiv(imageDimensions.width, config.cols),
          tileHeight |-> FloorDiv(imageDimensions.height, config.rows)]
    ELSE [cols |-> 8, rows |-> 8,
          tileWidth |-> FloorDiv(imageDimensions.width, 8),
          tileHeight |-> FloorDiv(imageDimensions.height, 8)]

(* .extract(...).resize(tileSize, tileSize).png().toBuffer(), read raw: r, g,
   b of each of the tileSize * tileSize pixels *)
tileBufferSF(image, tileSize) ==
  [k \in 1..(3 * tileSize * tileSize) |->
     CASE k % 3 = 1 -> image.color.r
       [] k % 3 = 2 -> image.color.g
       [] OTHER -> image.color.b]

(* data[i] || 0, for the 0-based index i *)
byteAt(data, i) == IF i + 1 <= Len(data) THEN data[i + 1] ELSE 0

(* for (let i = 0; i < data.length; i += 3); totalBrightness in thirds *)
RECURSIVE brightnessLoop(_, _)
brightnessLoop(st, data) ==
  IF st.i >= Len(data)
    THEN st
    ELSE brightnessLoop(
           [i |-> st.i + 3,
            totalBrightness |-> st.totalBrightness + byteAt(data, st.i)
                                  + byteAt(data, st.i + 1) + byteAt(data, st.i + 2)],
           data)

(* avgBrightness = totalBrightness / (data.length / 3) *)
classifyByBrightness(avgBrightness) ==
  IF Less(avgBrightness, Num(100)) THEN "wall"
  ELSE IF Less(Num(180), avgBrightness) THEN "decoration"
  ELSE "floor"

classifyTile(data) ==
  classifyByBrightness(
    Ratio(brightnessLoop([i |-> 0, totalBrightness |-> 0], data).totalBrightness,
          Len(data)))

(* id: `${row}-${col}` *)
rowColId(row, col) == ToString(row) \o "-" \o ToString(col)

(* a safety check that also skips a region ending at the image's edge *)
outOfBounds_Inclusive(x, y, grid, metadata) ==
  x + grid.tileWidth >= metadata.width \/ y + grid.tileHeight >= metadata.height

(* x + grid.tileWidth > (metadata.width || 0) ||
   y + grid.tileHeight > (metadata.height || 0) *)
outOfBounds(x, y, grid, metadata) ==
  x + grid.tileWidth > metadata.width \/ y + grid.tileHeight > metadata.height

(* the body of the loops for the region at (x, y): continue, or throw (sharp's
   extract rejects the region), or push the tile *)
extractTileSF(st, row, col, x, y, image, grid, tileSize) ==
  IF st.error # NULL \/ outOfBounds(x, y, grid, image)
    THEN st
    ELSE IF ~Extracts(image, x, y, grid.tileWidth, grid.tileHeight)
      THEN [st EXCEPT !.error = "extract_area: bad extract area"]
      ELSE [st EXCEPT !.tiles =
              Append(@, [id |-> rowColId(row, col),
                         imageData |-> tileBufferSF(image, tileSize),
                         classification |-> classifyTile(tileBufferSF(image, tileSize)),
                         metadata |-> [sourceX |-> x, sourceY |-> y,
                                       width |-> grid.tileWidth,
                                       height |-> grid.tileHeight]])]

(* for (let col = 0; col < grid.cols; col++) *)
RECURSIVE extractColsSF(_, _, _, _, _)
extractColsSF(st, row, image, grid, tileSize) ==
  IF st.col >= grid.cols
    THEN st
    ELSE extractColsSF(
           [extractTileSF(st, row, st.col, st.col * grid.tileWidth,
                          row * grid.tileHeight, image, grid, tileSize)
              EXCEPT !.col = st.col + 1],
           row, image, grid, tileSize)

(* for (let row = 0; row < grid.rows; row++) *)
RECURSIVE extractRowsSF(_, _, _, _)
extractRowsSF(st, image, grid, tileSize) ==
  IF st.row >= grid.rows
    THEN st
    ELSE extractRowsSF(
           [extractColsSF([st EXCEPT !.col = 0], st.row, image, grid, tileSize)
              EXCEPT !.row = st.row + 1],
           image, grid, tileSize)

extractTilesFromGridSF(image, grid, tileSize) ==
  extractRowsSF([row |-> 0, col |-> 0, tiles |-> <<>>, error |-> NULL],
                image, grid, tileSize)

(* the atlas, or the error thrown *)
atlasOrError(image, grid, extracted) ==
  IF extracted.error # NULL
    THEN [error |-> extracted.error]
    ELSE atlasOf(image, grid, extracted.tiles)

gridAtlasSF(image, grid, tileSize) ==
  atlasOrError(image, grid, extractTilesFromGridSF(image, grid, tileSize))

extractTilesSF(image, gridConfig, tileSize) ==
  gridAtlasSF(image, calculateGridSF(image, gridConfig), tileSize)

MaxGridSF == 4      \* most columns and most rows of a custom grid (single-file)

ImageInputsSFX ==
  {[width |-> w, height |-> h, color |-> c] :
     w \in {1, 2, 3, 4, 5, 9}, h \in {1, 2, 3, 4, 5, 9},
     c \in {[r |-> 20, g |-> 20, b |-> 20], [r |-> 30, g |-> 180, b |-> 90],
            [r |-> 250, g |-> 250, b |-> 250]}}

GridConfigInputsSF ==
  {[type |-> "custom", cols |-> c, rows |-> r] : c \in 0..MaxGridSF, r \in 0..MaxGridSF}
    \cup {[type |-> "preset", cols |-> 2, rows |-> 2],
          [type |-> "auto", cols |-> 0, rows |-> 0]}

(* TileExtractionService.extractTiles of the single-file backend *)
ApplyExtractTilesSF ==
  /\ call.fn = "extractTilesSF"
  /\ result = NoResult
  /\ result' = extractTilesSF(call.image, call.gridConfig, call.tileSize)
  /\ UNCHANGED <<variant, atlasStorage, atlases, maps, request, response,
                 firstGen, written, call, currentAtlas>>
  /\ UNCHANGED clientVars

----------------------------------------------------------------------------
(* Browser client: MapGeneratorFactory                                      *)

(* tilesByType[classification] is an array with at least one element *)
hasTiles(tilesByType, classification) ==
  classification \in DOMAIN tilesByType /\ Len(tilesByType[classification]) > 0

selectAutoGenerator(tilesByType) ==
  LET hasWater == hasTiles(tilesByType, "wall")
      hasVegetation == hasTiles(tilesByType, "decoration")
  IN  IF hasWater /\ hasVegetation
        THEN "NatureMapGenerator"
        ELSE IF "wall" \in DOMAIN tilesByType
                /\ Len(tilesByType.wall) > Len(tilesByType.floor)
          THEN "DungeonMapGenerator"
          ELSE "TopDownMapGenerator"

createGenerator(environmentType, tilesByType) ==
  CASE environmentType = "nature" -> "NatureMapGenerator"
    [] environmentType = "dungeon" -> "DungeonMapGenerator"
    [] environmentType = "city" -> "CityMapGenerator"
    [] environmentType = "auto" -> selectAutoGenerator(tilesByType)
    [] OTHER -> "TopDownMapGenerator"

CreateGenerator ==
  /\ call.fn = "createGenerator"
  /\ result = NoResult
  /\ result' = [generator |-> createGenerator(call.environmentType, call.tilesByType)]
  /\ UNCHANGED <<variant, atlasStorage, atlases, maps, request, response,
                 firstGen, written, call, currentAtlas>>
  /\ UNCHANGED clientVars

----------------------------------------------------------------------------
(* Browser client: useAppStore, the atlas loaded (null is NoAtlas)          *)

(* set({ currentAtlas: atlas }) with the atlas an extraction returned *)
SetCurrentAtlas ==
  /\ call.fn \in {"extractTiles", "extractTilesSF"}
  /\ "tiles" \in DOMAIN result
  /\ currentAtlas = NoAtlas
  /\ currentAtlas' = result
  /\ UNCHANGED <<variant, atlasStorage, atlases, maps, request, response,
                 firstGen, written, call, result>>
  /\ UNCHANGED clientVars

(* an update that gives every tile the classification *)
updateTileClassification_AllTiles(state, tileId, classification) ==
  IF state = NoAtlas
    THEN state
    ELSE [state EXCEPT !.tiles =
            [i \in 1..Len(@) |-> [@[i] EXCEPT !.classification = classification]]]

(* state.currentAtlas after updateTileClassification(tileId, classification) *)
updateTileClassification(state, tileId, classification) ==
  IF state = NoAtlas
    THEN state
    ELSE [state EXCEPT !.tiles =
            [i \in 1..Len(@) |->
               IF @[i].id = tileId
                 THEN [@[i] EXCEPT !.classification = classification]
                 ELSE @[i]]]

(* the ids the client may name: the first, the middle and the last tile of
   the atlas loaded, and an id no tile has *)
LoadedTileIds(atlas) ==
  {atlas.tiles[i].id :
     i \in {1, (Len(atlas.tiles) + 1) \div 2, Len(atlas.tiles)} \cap 1..Len(atlas.tiles)}
    \cup {"unknown"}

(* the number of updates made so far *)
updates == IF call.fn = "updateTileClassification" THEN call.updates ELSE 0

UpdateTileClassification ==
  /\ call.fn \in {"extractTiles", "extractTilesSF", "updateTileClassification"}
  /\ result # NoResult
  /\ updates < MaxUpdates
  /\ \E tileId \in LoadedTileIds(currentAtlas), classification \in Classifications :
       /\ call' = [fn |-> "updateTileClassification", tileId |-> tileId,
                   classification |-> classification, before |-> currentAtlas,
                   updates |-> updates + 1]
       /\ currentAtlas' = updateTileClassification(currentAtlas, tileId, classification)
  /\ UNCHANGED <<variant, atlasStorage, atlases, maps, request, response,
                 firstGen, written, result>>
  /\ UNCHANGED clientVars

----------------------------------------------------------------------------
(* The tile pipeline and the client store, apart from the servers' routes.  *)
(* A behaviour starts with one call of a pipeline function pending; the     *)
(* action of that function applies it.                                      *)

TileCalls ==
  {[fn |-> "classifyTileByFeatures", features |-> f] : f \in FeatureInputs}
    \cup {[fn |-> "detectOptimalGrid", image |-> [width |-> w, height |-> h]] :
            w \in ImageSizeInputs, h \in ImageSizeInputs}
    \cup {[fn |-> "analyzeTileFeatures", data |-> d] : d \in BufferInputs}
    \cup {[fn |-> "isMeaningfulTile", data |-> d] : d \in BufferInputs}
    \cup {[fn |-> "extractTiles", image |-> i, gridConfig |-> g,
           tileSize |-> MIN_TILE_SIZE] :
            i \in ImageInputsTES, g \in GridConfigInputs}
    \cup {[fn |-> "extractTilesSF", image |-> i, gridConfig |-> g,
           tileSize |-> MIN_TILE_SIZE] :
            i \in ImageInputsSFX, g \in GridConfigInputsSF}
    \cup {[fn |-> "createGenerator", environmentType |-> e, tilesByType |-> t] :
            e \in EnvironmentTypes, t \in PoolInputs}

TileInit ==
  /\ variant = "none"
  /\ atlasStorage = <<>>
  /\ atlases = <<>>
  /\ maps = <<>>
  /\ request = NoRequest
  /\ response = NoResponse
  /\ firstGen = NoGen
  /\ written = NoWrites
  /\ call \in TileCalls
  /\ result = NoResult
  /\ currentAtlas = NoAtlas
  /\ appState = NoAppState
  /\ paintModeHandler = NoPaintModeHandler
  /\ observed = NoObserved

TileNext ==
  \/ ClassifyTile
  \/ DetectGrid
  \/ AnalyzeTile
  \/ CheckMeaningful
  \/ ApplyExtractTiles
  \/ ApplyExtractTilesSF
  \/ CreateGenerator
  \/ SetCurrentAtlas
  \/ UpdateTileClassification

TileSpec == TileInit /\ [][TileNext]_vars

----------------------------------------------------------------------------
(* Browser client: AppState (js/DungeonMapGenerator.js)                     *)
(* Tile indices count from 0 as in the code; tiles[index] of the code is    *)
(* tiles[index + 1] here.  A Set and a Map are sequences in insertion       *)
(* order: selectedTiles of indices, tileClassifications of <<index, type>>. *)

Includes(array, index) == \E k \in DOMAIN array : array[k] = index

Has(map, index) == \E k \in DOMAIN map : map[k][1] = index

(* this.tiles.push(tileData) *)
addTile(state, tileData) == [state EXCEPT !.tiles = Append(@, tileData)]

clearTiles(state) ==
  [state EXCEPT !.tiles = <<>>, !.selectedTiles = <<>>, !.tileClassifications = <<>>]

(* this.selectedTiles.add(index), after clear() unless multiSelect *)
selectTile(state, index, multiSelect) ==
  [state EXCEPT !.selectedTiles =
     IF multiSelect
       THEN IF Includes(@, index) THEN @ ELSE Append(@, index)
       ELSE <<index>>]

deselectTile(state, index) ==
  [state EXCEPT !.selectedTiles =
     SelectSeq(@, LAMBDA selected : selected # index)]

clearSelection(state) == [state EXCEPT !.selectedTiles = <<>>]

(* Map.prototype.set: an existing key keeps its position *)
setTileClassification(state, index, classification) ==
  [state EXCEPT !.tileClassifications =
     IF Has(@, index)
       THEN [k \in DOMAIN @ |->
               IF @[k][1] = index THEN <<index, classification>> ELSE @[k]]
       ELSE Append(@, <<index, classification>>)]

(* Map.prototype.get; undefined is NULL *)
getTileClassification(state, index) ==
  IF Has(state.tileClassifications, index)
    THEN state.tileClassifications[
           CHOOSE k \in DOMAIN state.tileClassifications :
             state.tileClassifications[k][1] = index][2]
    ELSE NULL

(* tileIndices.forEach(index => this.setTileClassification(index, type)) *)
RECURSIVE setEach(_, _, _, _)
setEach(state, tileIndices, type, k) ==
  IF k > Len(tileIndices)
    THEN state
    ELSE setEach(setTileClassification(state, tileIndices[k], type),
                 tileIndices, type, k + 1)

(* an assignment that leaves the indices in the categories they were in *)
assignTilesToType_NoRemove(state, tileIndices, type) ==
  setEach([state EXCEPT !.manualClassification[type] = @ \o tileIndices],
          tileIndices, type, 1)

assignTilesToType(state, tileIndices, type) ==
  setEach([state EXCEPT !.manualClassification =
             [category \in DOMAIN @ |->
                SelectSeq(@[category], LAMBDA index : ~Includes(tileIndices, index))
                  \o (IF category = type THEN tileIndices ELSE <<>>)]],
          tileIndices, type, 1)

(* this.tileClassifications.forEach((type, index) => tilesByType[type].push(index)) *)
Classed(tileClassifications, type) ==
  LET entries == SelectSeq(tileClassifications, LAMBDA entry : entry[2] = type)
  IN  [k \in DOMAIN entries |-> entries[k][1]]

getTilesByType(state) ==
  IF \A type \in Classifications : Len(state.manualClassification[type]) = 0
    THEN [type \in Classifications |-> Classed(state.tileClassifications, type)]
    ELSE state.manualClassification

----------------------------------------------------------------------------
(* Browser client: TileExtractor.extractTiles (js/CityMapGenerator.js)      *)
(* The tileset image is given by the classifications TileClassifier         *)
(* returns for its meaningful tiles, in scan order of the grid chosen.      *)

(* the body of the loop over the grid, for the k-th meaningful tile *)
RECURSIVE extractAtlasTiles(_, _, _)
extractAtlasTiles(state, image, k) ==
  IF k > Len(image)
    THEN state
    ELSE extractAtlasTiles(
           selectTile(setTileClassification(addTile(state, image[k]),
                                            Len(state.tiles), image[k]),
                      Len(state.tiles), TRUE),
           image, k + 1)

extractSingleTexture(state, image) ==
  selectTile(setTileClassification(addTile(state, image[1]), Len(state.tiles), image[1]),
             Len(state.tiles), FALSE)

extractTilesClient(state, mode, image) ==
  IF mode = "single"
    THEN extractSingleTexture(clearTiles(state), image)
    ELSE extractAtlasTiles(clearTiles(state), image, 1)

MaxClientTiles == 2

TextureModeInputs == {"single", "atlas"}

(* the tileset and the grid chosen: a single texture has one tile *)
ClientImageInputs(mode) ==
  IF mode = "single"
    THEN {<<c>> : c \in Classifications}
    ELSE SeqsUpTo(Classifications, MaxClientTiles)

(* TileExtractor.extractTiles, called when the tileset is loaded or an
   extraction option changes; observed.reextracted records an extraction
   made after an assignment *)
ExtractTilesClient ==
  /\ \E mode \in TextureModeInputs :
       \E image \in ClientImageInputs(mode) :
         appState' = extractTilesClient(appState, mode, image)
  /\ observed' = [observed EXCEPT !.reextracted = DOMAIN observed.assigned # {}]
  /\ UNCHANGED <<variant, atlasStorage, atlases, maps, request, response, firstGen, written>>
  /\ UNCHANGED tileVars
  /\ UNCHANGED paintModeHandler

(* TileDisplayManager.handleTileClick on the tile displayed at index *)
handleTileClick(state, index, isMultiSelect) ==
  IF isMultiSelect
    THEN IF Includes(state.selectedTiles, index)
           THEN deselectTile(state, index)
           ELSE selectTile(state, index, TRUE)
    ELSE selectTile(clearSelection(state), index, FALSE)

HandleTileClick ==
  /\ \E index \in 0..(Len(appState.tiles) - 1), isMultiSelect \in BOOLEAN :
       appState' = handleTileClick(appState, index, isMultiSelect)
  /\ UNCHANGED <<variant, atlasStorage, atlases, maps, request, response, firstGen, written>>
  /\ UNCHANGED tileVars
  /\ UNCHANGED <<paintModeHandler, observed>>

(* MapGeneratorApp.assignSelectedTiles; assignType is the value of the
   tileAssignType select, "" when none is chosen *)
assignSelectedTiles(state, assignType) ==
  IF assignType = "" \/ Len(state.selectedTiles) = 0
    THEN state
    ELSE clearSelection(assignTilesToType(state, state.selectedTiles, assignType))

AssignTypeInputs == Classifications \cup {""}

(* observed.assigned keeps, by tile index, the type of the latest assignment
   made by assignTilesToType *)
Assigned(state, assignType) ==
  IF assignType = "" \/ Len(state.selectedTiles) = 0
    THEN observed.assigned
    ELSE [index \in DOMAIN observed.assigned
                      \cup {state.selectedTiles[k] : k \in DOMAIN state.selectedTiles} |->
            IF Includes(state.selectedTiles, index)
              THEN assignType ELSE observed.assigned[index]]

AssignSelectedTiles ==
  /\ \E assignType \in AssignTypeInputs :
       /\ appState' = assignSelectedTiles(appState, assignType)
       /\ observed' = [observed EXCEPT !.assigned = Assigned(appState, assignType)]
  /\ UNCHANGED <<variant, atlasStorage, atlases, maps, request, response, firstGen, written>>
  /\ UNCHANGED tileVars
  /\ UNCHANGED paintModeHandler

----------------------------------------------------------------------------
(* Browser client: TopDownMapGenerator (js/CityMapGenerator.js) and         *)
(* BaseMapGenerator.  A map is the grid map[y][x] of tile indices, NoIndex  *)
(* for null; st carries the map and the number n of Math.random calls made. *)

(* Array(height).fill(null).map(() => Array(width).fill(null)) *)
BlankMap(width, height) == [y \in 0..(height - 1) |-> [x \in 0..(width - 1) |-> NoIndex]]

(* tiles[Math.floor(Math.random() * tiles.length)], the n-th call *)
RandomTile(tiles, rs, n) == tiles[RandFloor(Random(rs, n), Len(tiles)) + 1]

(* fillWithTiles(map, tiles): one call of Math.random per cell, row by row *)
fillWithTiles(st, tiles, width, height, rs) ==
  IF Len(tiles) = 0
    THEN st
    ELSE [map |-> [y \in 0..(height - 1) |->
                     [x \in 0..(width - 1) |-> RandomTile(tiles, rs, st.n + y * width + x)]],
          n |-> st.n + width * height]

(* the loop over x sets map[0][x], then map[height - 1][x]; the loop over y
   then sets map[y][0], then map[y][width - 1]: a cell keeps the tile of the
   last assignment made to it *)
generateBorders(st, walls, width, height, rs) ==
  IF Len(walls) = 0
    THEN st
    ELSE [map |-> [y \in 0..(height - 1) |->
                     [x \in 0..(width - 1) |->
                        IF x = width - 1
                          THEN RandomTile(walls, rs, st.n + 2 * width + 2 * y + 1)
                        ELSE IF x = 0
                          THEN RandomTile(walls, rs, st.n + 2 * width + 2 * y)
                        ELSE IF y = height - 1
                          THEN RandomTile(walls, rs, st.n + 2 * x + 1)
                        ELSE IF y = 0
                          THEN RandomTile(walls, rs, st.n + 2 * x)
                        ELSE st.map[y][x]]],
          n |-> st.n + 2 * width + 2 * height]

(* for (let i = 0; i < numDecorations; i++): i counts the rounds left *)
RECURSIVE scatter(_, _, _, _, _, _)
scatter(st, decorations, width, height, rs, i) ==
  IF i <= 0
    THEN st
    ELSE scatter(
           [map |-> [st.map EXCEPT
                       ![RandFloor(Random(rs, st.n + 1), height)]
                        [RandFloor(Random(rs, st.n), width)] =
                          RandomTile(decorations, rs, st.n + 2)],
            n |-> st.n + 3],
           decorations, width, height, rs, i - 1)

(* numDecorations = Math.floor((width * height) * 0.1) *)
generateRandomDecorations(st, decorations, width, height, rs) ==
  IF Len(decorations) = 0
    THEN st
    ELSE scatter(st, decorations, width, height, rs, (width * height) \div 10)

(* TopDownMapGenerator.generate(width, height, tilesByType) *)
generateTopDown(width, height, tilesByType, rs) ==
  generateRandomDecorations(
    generateBorders(
      fillWithTiles([map |-> BlankMap(width, height), n |-> 0],
                    pool(tilesByType, "floor"), width, height, rs),
      pool(tilesByType, "wall"), width, height, rs),
    pool(tilesByType, "decoration"), width, height, rs).map

----------------------------------------------------------------------------
(* Browser client: MapGeneratorApp.generateMap (js/MapGeneratorApp.js)      *)

MapSizeInputs == {4}

(* the useFloors, useWalls and useDecorations checkboxes *)
UseInputs ==
  {AllLayers, [floors |-> TRUE, walls |-> TRUE, decorations |-> FALSE],
   [floors |-> FALSE, walls |-> FALSE, decorations |-> TRUE]}

ClientRandomInputs == {<<0, 0>>, <<5, 7>>}

(* the environments for which the factory returns TopDownMapGenerator *)
ClientEnvironmentInputs == {"abstract", "auto"}

(* if (!useFloors) tilesByType.floor = []; ... *)
Filtered(tilesByType, use) ==
  [floor |-> IF use.floors THEN tilesByType.floor ELSE <<>>,
   wall |-> IF use.walls THEN tilesByType.wall ELSE <<>>,
   decoration |-> IF use.decorations THEN tilesByType.decoration ELSE <<>>]

(* the state after generateMap returns: unchanged when it reports an error *)
generateMapClient(state, mapSize, use, environmentType, rs) ==
  IF Len(state.tiles) = 0 \/ Flat(Filtered(getTilesByType(state), use)) = 0
    THEN state
    ELSE [state EXCEPT !.currentMap =
            generateTopDown(mapSize, mapSize, Filtered(getTilesByType(state), use), rs)]

Generates(state, use) ==
  Len(state.tiles) > 0 /\ Flat(Filtered(getTilesByType(state), use)) > 0

(* paintModeHandler.setupPaintMode() ends a successful generateMap;
   observed.tilesByType keeps the pools the map was generated from *)
GenerateMapClient ==
  /\ \E mapSize \in MapSizeInputs, use \in UseInputs,
        environmentType \in ClientEnvironmentInputs, rs \in ClientRandomInputs :
       /\ createGenerator(environmentType, Filtered(getTilesByType(appState), use))
            = "TopDownMapGenerator"
       /\ appState' = generateMapClient(appState, mapSize, use, environmentType, rs)
       /\ paintModeHandler' =
            IF Generates(appState, use)
              THEN [paintModeHandler EXCEPT !.listening = TRUE] ELSE paintModeHandler
       /\ observed' =
            IF Generates(appState, use)
              THEN [observed EXCEPT !.tilesByType = Filtered(getTilesByType(appState), use)]
              ELSE observed
  /\ UNCHANGED <<variant, atlasStorage, atlases, maps, request, response, firstGen, written>>
  /\ UNCHANGED tileVars

----------------------------------------------------------------------------
(* Browser client: paint mode (js/PaintModeHandler.js)                      *)

(* MapGeneratorApp.togglePaintMode: setupPaintMode when paint mode is now
   enabled, removePaintListeners otherwise *)
TogglePaintMode ==
  /\ appState' = [appState EXCEPT !.paintMode = ~@]
  /\ paintModeHandler' = [paintModeHandler EXCEPT !.listening = ~appState.paintMode]
  /\ UNCHANGED <<variant, atlasStorage, atlases, maps, request, response, firstGen, written>>
  /\ UNCHANGED tileVars
  /\ UNCHANGED observed

(* a click on a tile of the tile selector: setPaintTileIndex(index) *)
SetPaintTileIndex ==
  /\ \E index \in 0..(Len(appState.tiles) - 1) :
       appState' = [appState EXCEPT !.paintTileIndex = index]
  /\ UNCHANGED <<variant, atlasStorage, atlases, maps, request, response, firstGen, written>>
  /\ UNCHANGED tileVars
  /\ UNCHANGED <<paintModeHandler, observed>>

(* map is not null here *)
isValidPosition(coordinates, map) ==
  /\ coordinates.x >= 0 /\ coordinates.x < Cardinality(DOMAIN map[0])
  /\ coordinates.y >= 0 /\ coordinates.y < Cardinality(DOMAIN map)

(* a paint that does not look at the position *)
paintAtPosition_Unchecked(state, coordinates) ==
  IF ~state.paintMode \/ state.paintTileIndex = NoIndex \/ state.currentMap = NoGrid
    THEN state
    ELSE [state EXCEPT !.currentMap =
            [y \in DOMAIN @ |->
               [x \in DOMAIN @[y] |->
                  IF x = coordinates.x % Cardinality(DOMAIN @[y])
                       \/ y = coordinates.y % Cardinality(DOMAIN @)
                    THEN state.paintTileIndex ELSE @[y][x]]]]

(* with currentMap null, isValidPosition returns false for x < 0 and throws
   a TypeError otherwise: the map is not changed *)
paintAtPosition(state, coordinates) ==
  IF ~state.paintMode \/ state.paintTileIndex = NoIndex
    THEN state
    ELSE IF state.currentMap # NoGrid /\ isValidPosition(coordinates, state.currentMap)
      THEN [state EXCEPT !.currentMap[coordinates.y][coordinates.x] = state.paintTileIndex]
      ELSE state

MaxPointerEvents == 4

(* the cell under the pointer: getCanvasCoordinates(e, canvas) *)
CoordinateInputs == {[x |-> x, y |-> y] : x \in {-1, 1, 2}, y \in {1, 4}}

(* observed.pressed: a mousedown was delivered and no mouseup or mouseleave
   since; observed.events counts the pointer events delivered and
   observed.pointer is the cell under the pointer at the latest of them *)
HandleMouseDown ==
  /\ paintModeHandler.listening
  /\ observed.events < MaxPointerEvents
  /\ \E coordinates \in CoordinateInputs :
       /\ appState' = IF appState.paintMode
                        THEN paintAtPosition(appState, coordinates) ELSE appState
       /\ observed' = [observed EXCEPT !.pressed = TRUE, !.events = @ + 1,
                                       !.pointer = coordinates]
  /\ paintModeHandler' =
       IF appState.paintMode
         THEN [paintModeHandler EXCEPT !.isPainting = TRUE] ELSE paintModeHandler
  /\ UNCHANGED <<variant, atlasStorage, atlases, maps, request, response, firstGen, written>>
  /\ UNCHANGED tileVars

HandleMouseMove ==
  /\ paintModeHandler.listening
  /\ observed.events < MaxPointerEvents
  /\ \E coordinates \in CoordinateInputs :
       /\ appState' = IF paintModeHandler.isPainting /\ appState.paintMode
                        THEN paintAtPosition(appState, coordinates) ELSE appState
       /\ observed' = [observed EXCEPT !.events = @ + 1, !.pointer = coordinates]
  /\ UNCHANGED <<variant, atlasStorage, atlases, maps, request, response, firstGen, written>>
  /\ UNCHANGED tileVars
  /\ UNCHANGED paintModeHandler

HandleMouseUp ==
  /\ paintModeHandler.listening
  /\ observed.events < MaxPointerEvents
  /\ paintModeHandler' = [paintModeHandler EXCEPT !.isPainting = FALSE]
  /\ observed' = [observed EXCEPT !.pressed = FALSE, !.events = @ + 1]
  /\ UNCHANGED <<variant, atlasStorage, atlases, maps, request, response, firstGen, written>>
  /\ UNCHANGED tileVars
  /\ UNCHANGED appState

HandleMouseLeave ==
  /\ paintModeHandler.listening
  /\ observed.events < MaxPointerEvents
  /\ paintModeHandler' = [paintModeHandler EXCEPT !.isPainting = FALSE]
  /\ observed' = [observed EXCEPT !.pressed = FALSE, !.events = @ + 1]
  /\ UNCHANGED <<variant, atlasStorage, atlases, maps, request, response, firstGen, written>>
  /\ UNCHANGED tileVars
  /\ UNCHANGED appState

----------------------------------------------------------------------------
(* The browser client: a page with a tileset loaded.                        *)

ClientInit ==
  /\ variant = "none"
  /\ atlasStorage = <<>>
  /\ atlases = <<>>
  /\ maps = <<>>
  /\ request = NoRequest
  /\ response = NoResponse
  /\ firstGen = NoGen
  /\ written = NoWrites
  /\ call = NoCall
  /\ result = NoResult
  /\ currentAtlas = NoAtlas
  /\ appState = NoAppState
  /\ paintModeHandler = NoPaintModeHandler
  /\ observed = NoObserved

ClientNext ==
  \/ ExtractTilesClient
  \/ HandleTileClick
  \/ AssignSelectedTiles
  \/ GenerateMapClient

ClientSpec == ClientInit /\ [][ClientNext]_vars

(* The paint session: a page on which a tileset was extracted and a map
   generated from it.                                                       *)
PaintInit ==
  /\ variant = "none"
  /\ atlasStorage = <<>>
  /\ atlases = <<>>
  /\ maps = <<>>
  /\ request = NoRequest
  /\ response = NoResponse
  /\ firstGen = NoGen
  /\ written = NoWrites
  /\ call = NoCall
  /\ result = NoResult
  /\ currentAtlas = NoAtlas
  /\ \E mode \in TextureModeInputs :
       \E image \in ClientImageInputs(mode), mapSize \in MapSizeInputs,
          rs \in ClientRandomInputs :
         /\ Generates(extractTilesClient(NoAppState, mode, image), AllLayers)
         /\ appState = generateMapClient(extractTilesClient(NoAppState, mode, image),
                                         mapSize, AllLayers, "abstract", rs)
         /\ observed = [NoObserved EXCEPT !.tilesByType =
                          getTilesByType(extractTilesClient(NoAppState, mode, image))]
  /\ paintModeHandler = [NoPaintModeHandler EXCEPT !.listening = TRUE]

PaintNext ==
  \/ TogglePaintMode
  \/ SetPaintTileIndex
  \/ HandleMouseDown
  \/ HandleMouseMove
  \/ HandleMouseUp
  \/ HandleMouseLeave

PaintSpec == PaintInit /\ [][PaintNext]_vars

----------------------------------------------------------------------------
(* Properties                                                              *)

GenerateRoutes == {"generate", "generate-map"}

(* the response in flight carries a generated map *)
Returned == request.route \in GenerateRoutes /\ response.status = 200
SeededReturned == request.route = "generate" /\ response.status = 200
StructuralReturned == request.route = "generate-map" /\ response.status = 200

Xs == 0..(request.width - 1)
Ys == 0..(request.height - 1)

CellAt(x, y) == response.map.cells[y][x]

OnBorder(x, y) ==
  x = 0 \/ x = request.width - 1 \/ y = 0 \/ y = request.height - 1

Ids(tiles) == {tiles[i].id : i \in DOMAIN tiles}
Classified(tiles, c) == {tiles[i].id : i \in {j \in DOMAIN tiles : tiles[j].classification = c}}
Elems(s) == {s[i] : i \in DOMAIN s}

SameInputs(p, q) ==
  /\ p.seed = q.seed
  /\ p.width = q.width
  /\ p.height = q.height
  /\ p.environmentType = q.environmentType
  /\ p.enabledLayers = q.enabledLayers

(* a request is being handled in this step *)
Handled(route) ==
  response = NoResponse /\ response' # NoResponse /\ request'.route = route

(* the request passed the route's parameter validation *)
Accepted(p) ==
  IF p.route = "generate" THEN generateMapSchema(p) ELSE validateMapGeneration(p) = NULL

Stored(atlasId) == atlasId \in DOMAIN atlasStorage \cup DOMAIN atlases

----------------------------------------------------------------------------
(* C1: seeded composition is deterministic.  A map of POST /generate whose  *)
(* request has the seed, width, height, environment type and enabled layers *)
(* of the request of the first map a client received, and is generated from *)
(* the same stored atlas, has the cells of that first map, whatever         *)
(* requests were handled in between.                                        *)
C1_Determinism ==
  (/\ SeededReturned
   /\ firstGen # NoGen
   /\ SameInputs(request, firstGen.request)
   /\ getAtlas(request.atlasId) = firstGen.atlas)
  => response.map.cells = firstGen.cells

(* a second generation of a seeded dungeon whose interior holds a wall and a
   floor cell, both decided by the generator *)
C1_Witness ==
  /\ SeededReturned
  /\ firstGen # NoGen
  /\ SameInputs(request, firstGen.request)
  /\ getAtlas(request.atlasId) = firstGen.atlas
  /\ request.seed = 1
  /\ request.environmentType = "dungeon"
  /\ \E x \in Xs, y \in Ys : ~OnBorder(x, y) /\ CellAt(x, y).layer = "wall"
  /\ \E x \in Xs, y \in Ys : CellAt(x, y).layer = "floor" /\ CellAt(x, y).tileId # NULL

----------------------------------------------------------------------------
(* C2: shape invariant.  Every returned map, of the seeded service and of   *)
(* every structural layout, has exactly height rows of exactly width cells, *)
(* and the cell at cells[y][x] carries x and y.                             *)
C2_Shape ==
  Returned =>
    /\ DOMAIN response.map.cells = Ys
    /\ \A y \in Ys :
         /\ DOMAIN response.map.cells[y] = Xs
         /\ \A x \in Xs : CellAt(x, y).x = x /\ CellAt(x, y).y = y

(* a structural dungeon map that is not square *)
C2_Witness ==
  /\ StructuralReturned
  /\ request.environmentType = "dungeon"
  /\ request.width # request.height
  /\ \E x \in Xs, y \in Ys : CellAt(x, y).layer = "floor"

----------------------------------------------------------------------------
(* C3: perimeter invariant of the seeded composer.  With walls enabled,     *)
(* every cell on the border of a returned map has layer wall.               *)
C3_Perimeter ==
  (SeededReturned /\ request.enabledLayers.walls) =>
    \A x \in Xs, y \in Ys : OnBorder(x, y) => CellAt(x, y).layer = "wall"

(* a seeded dungeon with walls enabled that is not wall everywhere *)
C3_Witness ==
  /\ SeededReturned
  /\ request.enabledLayers.walls
  /\ request.environmentType = "dungeon"
  /\ request.width # request.height
  /\ \E x \in Xs, y \in Ys : ~OnBorder(x, y) /\ CellAt(x, y).layer # "wall"

----------------------------------------------------------------------------
(* C4: pool fallback of the seeded composer.  In a map generated from an    *)
(* atlas that has at least one tile, every wall cell, every decoration cell *)
(* and, with floors enabled, every floor cell has the id of an atlas tile   *)
(* of the cell's layer when the atlas has one, and otherwise the id of some *)
(* tile of the atlas; so it is never null.                                  *)
C4_PoolFallback ==
  (SeededReturned /\ Len(getAtlas(request.atlasId).tiles) > 0) =>
    LET tiles == getAtlas(request.atlasId).tiles
    IN  \A x \in Xs, y \in Ys :
          LET cell == CellAt(x, y)
          IN  (cell.layer \in {"wall", "decoration"} \/ request.enabledLayers.floors) =>
                /\ cell.tileId # NULL
                /\ cell.tileId \in
                     (IF Classified(tiles, cell.layer) # {}
                        THEN Classified(tiles, cell.layer) ELSE Ids(tiles))

(* a wall cell of a map generated from an atlas without a wall tile *)
C4_Witness ==
  /\ SeededReturned
  /\ Len(getAtlas(request.atlasId).tiles) > 0
  /\ Classified(getAtlas(request.atlasId).tiles, "wall") = {}
  /\ \E x \in Xs, y \in Ys :
       CellAt(x, y).layer = "wall" /\ CellAt(x, y).tileId \in Ids(getAtlas(request.atlasId).tiles)

----------------------------------------------------------------------------
(* C5: pool fallback of the structural composer.  When the pool of a cell's *)
(* layer is empty and the floor pool is not, the cell's tileId is drawn     *)
(* from the floor pool.                                                     *)
C5_FloorFallback ==
  (StructuralReturned /\ Len(pool(request.tilesByType, "floor")) > 0) =>
    \A x \in Xs, y \in Ys :
      Len(pool(request.tilesByType, CellAt(x, y).layer)) = 0 =>
        CellAt(x, y).tileId \in Elems(pool(request.tilesByType, "floor"))

(* a wall cell left without a tile although the floor pool has one *)
C5_NullWall ==
  /\ StructuralReturned
  /\ Len(pool(request.tilesByType, "floor")) > 0
  /\ Len(pool(request.tilesByType, "wall")) = 0
  /\ \E x \in Xs, y \in Ys : CellAt(x, y).layer = "wall" /\ CellAt(x, y).tileId = NULL

----------------------------------------------------------------------------
(* C6: in every returned map a cell has tileId null only if it is a floor   *)
(* cell generated with floors disabled.  (The structural composer has no    *)
(* layer switches: its floors are never disabled.)                          *)
C6_NullOnlyDisabledFloor ==
  Returned =>
    \A x \in Xs, y \in Ys :
      CellAt(x, y).tileId = NULL =>
        /\ CellAt(x, y).layer = "floor"
        /\ request.route = "generate"
        /\ ~request.enabledLayers.floors

(* a decoration cell without a tile in a structural map *)
C6_NullDecoration ==
  /\ StructuralReturned
  /\ \E x \in Xs, y \in Ys :
       CellAt(x, y).layer = "decoration" /\ CellAt(x, y).tileId = NULL

----------------------------------------------------------------------------
(* C7: layer priority of the seeded composer.                               *)

(* the value of the environment's interior-wall predicate at (x, y), and the
   number of generator values it used *)
C7_Interior(x, y) ==
  shouldBeInteriorWall(x, y, request.width, request.height, request.environmentType,
                       createSeededRNG(IF request.seed = 0 THEN 42 ELSE request.seed, x, y))

C7_WallClaims(x, y) ==
  request.enabledLayers.walls /\ (OnBorder(x, y) \/ C7_Interior(x, y).result)

C7_DecorationClaims(x, y) ==
  /\ request.enabledLayers.decorations
  /\ shouldBeDecoration(x, y, request.environmentType,
                        createSeededRNG(IF request.seed = 0 THEN 42 ELSE request.seed, x, y),
                        C7_Interior(x, y).calls)

C7_Layer(x, y) ==
  IF C7_WallClaims(x, y) THEN "wall"
  ELSE IF C7_DecorationClaims(x, y) THEN "decoration"
  ELSE "floor"

(* C7: a cell is wall iff walls are enabled and it is on the perimeter or   *)
(* the interior-wall predicate holds; otherwise decoration iff decorations  *)
(* are enabled and the decoration predicate holds; otherwise floor, and     *)
(* then its tileId is null exactly when floors are disabled.                *)
C7_LayerPriority ==
  SeededReturned =>
    \A x \in Xs, y \in Ys :
      /\ CellAt(x, y).layer = C7_Layer(x, y)
      /\ C7_Layer(x, y) = "floor" =>
           (CellAt(x, y).tileId = NULL <=> ~request.enabledLayers.floors)

(* C7, for atlases that have a tile: the same statement for the maps        *)
(* generated from an atlas with at least one tile.                          *)
C7_LayerPriorityWithTiles ==
  Len(getAtlas(request.atlasId).tiles) > 0 => C7_LayerPriority

(* a floor cell without a tile although floors are enabled *)
C7_NullFloor ==
  /\ SeededReturned
  /\ request.enabledLayers.floors
  /\ \E x \in Xs, y \in Ys :
       C7_Layer(x, y) = "floor" /\ CellAt(x, y).tileId = NULL

----------------------------------------------------------------------------
(* C8: a generation request whose atlasId was never stored.                 *)

C8_NotFound ==
  /\ response'.status \in {404, 500}
  /\ response'.error = "Atlas not found"
  /\ response'.map = NoMap
  /\ UNCHANGED <<atlasStorage, atlases, maps>>

(* C8, as amended: a generation request that passes parameter validation    *)
(* and whose atlasId was never stored fails with the atlas-not-found error, *)
(* returns no map and leaves the atlas stores and the map store unchanged.  *)
C8_UnknownAtlasAfterValidation ==
  [][(/\ Handled("generate") \/ Handled("generate-map")
      /\ Accepted(request')
      /\ ~Stored(request'.atlasId))
     => C8_NotFound]_vars

(* C8, as stated: every generation request whose atlasId was never stored   *)
(* fails with the atlas-not-found error, returns no map and leaves the      *)
(* stores unchanged.                                                        *)
C8_UnknownAtlas ==
  [][(/\ Handled("generate") \/ Handled("generate-map")
      /\ ~Stored(request'.atlasId))
     => C8_NotFound]_vars

(* an unknown atlas id answered 404 after an atlas was stored *)
C8_Witness ==
  /\ request.route = "generate-map"
  /\ Accepted(request)
  /\ atlases # <<>>
  /\ ~Stored(request.atlasId)
  /\ response.status = 404
  /\ response.error = "Atlas not found"
  /\ maps = <<>>

----------------------------------------------------------------------------
(* C9: a generation request whose width or height is <= 0 or outside        *)
(* [MIN_MAP_SIZE, MAX_MAP_SIZE] is rejected with a validation error: no map *)
(* is returned and none is added to the map store.                          *)

C9_BadSize(size) == size <= 0 \/ size < MIN_MAP_SIZE \/ size > MAX_MAP_SIZE

C9_InvalidDimensions ==
  [][(/\ Handled("generate") \/ Handled("generate-map")
      /\ C9_BadSize(request'.width) \/ C9_BadSize(request'.height))
     => /\ response'.status = 400
        /\ response'.error \in {"Validation error", "Missing required fields",
                                "Invalid dimensions"}
        /\ response'.map = NoMap
        /\ UNCHANGED maps]_vars

(* a width above the maximum rejected by the single-file backend, and a
   height of zero rejected by the service *)
C9_Witness ==
  \/ /\ request.route = "generate-map"
     /\ request.width > MAX_MAP_SIZE
     /\ response = Fail(400, "Invalid dimensions")
  \/ /\ request.route = "generate"
     /\ request.height = 0
     /\ response = Fail(400, "Validation error")

----------------------------------------------------------------------------
(* C10: when no tile exists for any classification and floors are not       *)
(* disabled, generateMap fails with an empty-tile-pool error instead of     *)
(* returning a map.  Stated for the requests that reach generateMap: they   *)
(* passed validation and name a stored atlas.                               *)

C10_NoTile ==
  IF request.route = "generate"
    THEN Len(getAtlas(request.atlasId).tiles) = 0
    ELSE \A c \in Classifications : Len(pool(request.tilesByType, c)) = 0

C10_FloorsEnabled == request.route = "generate" => request.enabledLayers.floors

C10_EmptyTilePool ==
  (/\ request.route \in GenerateRoutes
   /\ response # NoResponse
   /\ Accepted(request)
   /\ Stored(request.atlasId)
   /\ C10_NoTile
   /\ C10_FloorsEnabled)
  => /\ response.status # 200
     /\ response.map = NoMap
     /\ response.error \in {"No tiles available for map generation",
                            "No tiles provided for map generation"}

(* a map of the seeded service generated from an atlas without tiles *)
C10_EmptyAtlasMap ==
  /\ SeededReturned
  /\ getAtlas(request.atlasId).tiles = <<>>
  /\ request.enabledLayers.floors
  /\ \A x \in Xs, y \in Ys : CellAt(x, y).tileId = NULL

----------------------------------------------------------------------------
(* Properties of the tile pipeline (TileSpec)                               *)

Applied(fn) == call.fn = fn /\ result # NoResult

Sum3(color) == Plus(Plus(color.r, color.g), color.b)

(* classifyByColor as the rules state it, means written as sums *)
ColorRule(color, default) ==
  CASE Less(color.r, color.g) /\ Less(color.b, color.g) /\ Less(Num(100), color.g)
         -> "floor"
    [] ~(Less(color.r, color.g) /\ Less(color.b, color.g) /\ Less(Num(100), color.g))
       /\ Less(Num(100), color.r) /\ Less(Num(80), color.g) /\ Less(color.b, Num(80))
         -> "floor"
    [] OTHER ->
         IF Less(Sum3(color), Num(180))
              \/ (Less(Abs(Minus(color.r, color.g)), Num(20))
                  /\ Less(Abs(Minus(color.g, color.b)), Num(20))
                  /\ Less(Sum3(color), Num(360)))
           THEN "wall" ELSE default

FlatRule(f) == Less(f.variance, Num(30)) /\ f.edges < 50
WallRule(f) ==
  \/ f.edges > 200
  \/ Less(f.brightness, Num(50))
  \/ \A ch \in {f.dominantColor.r, f.dominantColor.g, f.dominantColor.b} :
       Less(ch, Num(100))
DecorationRule(f) == Less(Num(100), f.variance) \/ f.colorComplexity > 20

CascadeRule(f) ==
  CASE FlatRule(f) -> ColorRule(f.dominantColor, "floor")
    [] ~FlatRule(f) /\ WallRule(f) -> "wall"
    [] ~FlatRule(f) /\ ~WallRule(f) /\ DecorationRule(f) -> "decoration"
    [] ~FlatRule(f) /\ ~WallRule(f) /\ ~DecorationRule(f)
         -> ColorRule(f.dominantColor, "floor")

(* C11: whenever classifyTileByFeatures has been applied to a feature
   vector, its result is the first matching rule of the cascade (flat tile ->
   by colour, wall, decoration, by colour), and so depends on the features
   alone *)
C11_Cascade ==
  Applied("classifyTileByFeatures") =>
    result.classification = CascadeRule(call.features)

(* C11 witness: a tile that matches both the flat-tile rule and the wall
   rule has been classified by its colour, as a floor *)
C11_Witness ==
  /\ Applied("classifyTileByFeatures")
  /\ FlatRule(call.features) /\ WallRule(call.features)
  /\ result.classification = "floor"

(* the bonuses of one classification, in tenths *)
Bonuses(f, classification) ==
  [floor |-> <<Less(f.variance, Num(20)),
               Less(Num(80), f.brightness) /\ Less(f.brightness, Num(200))>>,
   wall |-> <<f.edges > 150, Less(f.brightness, Num(80))>>,
   decoration |-> <<Less(Num(80), f.variance), f.colorComplexity > 15>>][classification]

Tenths(f, classification) ==
  5 + (IF Bonuses(f, classification)[1] THEN 3 ELSE 0)
    + (IF Bonuses(f, classification)[2] THEN 2 ELSE 0)

(* C12: the confidence computed for a classified tile is 0.5 plus 0.3 and
   0.2 for the two bonuses of the tile's own classification, and lies in
   [0.1, 1.0] *)
C12_Confidence ==
  Applied("classifyTileByFeatures") =>
    /\ result.confidence.num * 10
         = Tenths(call.features, result.classification) * result.confidence.den
    /\ ~Less(result.confidence, Ratio(1, 10))
    /\ ~Less(Num(1), result.confidence)

(* C12 witness: a floor tile that is flat and dark, so that the first floor
   bonus applies and the second does not although the wall bonus for low
   brightness would, has confidence 0.8 *)
C12_Witness ==
  /\ Applied("classifyTileByFeatures")
  /\ result.classification = "floor"
  /\ Less(call.features.variance, Num(20))
  /\ Less(call.features.brightness, Num(80))
  /\ result.confidence = Ratio(8, 10)

GridOrder == <<16, 8, 4, 2, 32, 12, 6>>

(* the k x k grid cuts the image into whole tiles of 8 to 128 pixels *)
Qualifies(image, k) ==
  /\ image.width % k = 0 /\ image.height % k = 0
  /\ 8 * k <= image.width /\ image.width <= 128 * k
  /\ 8 * k <= image.height /\ image.height <= 128 * k

Square(image, k) ==
  [cols |-> k, rows |-> k, tileWidth |-> image.width \div k,
   tileHeight |-> image.height \div k]

(* C13: detectOptimalGrid returns the first grid of 16, 8, 4, 2, 32, 12, 6
   that cuts the image into whole tiles of 8 to 128 pixels on both axes, and
   4x4 with floor-divided tile sizes when there is none; a 512x512 image
   gets 16x16 tiles of 32x32 *)
C13_AutoGrid ==
  Applied("detectOptimalGrid") =>
    /\ \/ \E i \in 1..Len(GridOrder) :
             /\ Qualifies(call.image, GridOrder[i])
             /\ \A j \in 1..(i - 1) : ~Qualifies(call.image, GridOrder[j])
             /\ result = Square(call.image, GridOrder[i])
       \/ /\ \A i \in 1..Len(GridOrder) : ~Qualifies(call.image, GridOrder[i])
          /\ result = Square(call.image, 4)
    /\ call.image = [width |-> 512, height |-> 512]
         => result = [cols |-> 16, rows |-> 16, tileWidth |-> 32, tileHeight |-> 32]

(* C13 witness: the grid of a 512x512 image has been detected, 16x16 with
   tiles of 32x32, although 8x8 qualifies too *)
C13_Witness ==
  /\ Applied("detectOptimalGrid")
  /\ call.image = [width |-> 512, height |-> 512]
  /\ Qualifies(call.image, 8)
  /\ result = [cols |-> 16, rows |-> 16, tileWidth |-> 32, tileHeight |-> 32]

Pixels(data) == {data[i] : i \in 1..Len(data)}

(* C16: the hasTransparency that analyzeTileFeatures computes for a buffer is
   true exactly when some pixel of the buffer has alpha < 255, alpha 0
   included *)
C16_HasTransparency ==
  Applied("analyzeTileFeatures") =>
    (result.hasTransparency <=> \E p \in Pixels(call.data) : p.a < 255)

(* C16 witness: a buffer with a pixel of alpha 0 has been analysed and
   hasTransparency is false *)
C16_ZeroAlphaOpaque ==
  /\ Applied("analyzeTileFeatures")
  /\ \E p \in Pixels(call.data) : p.a = 0
  /\ ~result.hasTransparency

(* a buffer without pixels of alpha 0: hasTransparency is as stated *)
C16_NonZeroAlpha ==
  Applied("analyzeTileFeatures") /\ (\A p \in Pixels(call.data) : p.a # 0) =>
    (result.hasTransparency <=> \E p \in Pixels(call.data) : p.a < 255)

RECURSIVE SumAlpha(_)
SumAlpha(data) == IF data = <<>> THEN 0 ELSE Head(data).a + SumAlpha(Tail(data))

RECURSIVE SumGrayDeviation(_)
SumGrayDeviation(data) ==
  IF data = <<>> THEN 0
  ELSE AbsInt(Head(data).r + Head(data).g + Head(data).b - 384)
         + SumGrayDeviation(Tail(data))

(* mean alpha > 50 and mean |gray - 128| > 5 *)
Meaningful(data) ==
  /\ SumAlpha(data) > 50 * Len(data)
  /\ SumGrayDeviation(data) > 3 * 5 * Len(data)

(* C17: isMeaningfulTile is true of a buffer exactly when the mean of the
   pixels' alpha values is > 50 and the mean of |gray - 128| is > 5; a fully
   transparent buffer is not meaningful *)
C17_Meaningful ==
  Applied("isMeaningfulTile") => (result.meaningful <=> Meaningful(call.data))

(* C17 witness: a buffer whose pixels all have alpha 0 has been tested and
   found meaningful *)
C17_TransparentKept ==
  /\ Applied("isMeaningfulTile")
  /\ \A p \in Pixels(call.data) : p.a = 0
  /\ result.meaningful

ExplicitGrid(config) ==
  config.type \in {"custom", "preset"} /\ config.cols >= 1 /\ config.rows >= 1

(* the candidate regions of a cols x rows grid in row-major order *)
Regions(cols, rows) ==
  [k \in 1..(cols * rows) |-> [row |-> (k - 1) \div cols, col |-> (k - 1) % cols]]

RegionRect(image, config, region) ==
  [sourceX |-> region.col * (image.width \div config.cols),
   sourceY |-> region.row * (image.height \div config.rows),
   width |-> image.width \div config.cols,
   height |-> image.height \div config.rows]

RegionBuffer(image, rect, size) ==
  tileBuffer(image, rect.sourceX, rect.sourceY, rect.width, rect.height, size)

(* the region can be extracted and its tile passes the meaningful test *)
RegionKept(image, rect, size) ==
  /\ Extracts(image, rect.sourceX, rect.sourceY, rect.width, rect.height)
  /\ isMeaningfulTile(RegionBuffer(image, rect, size))

KeptRects(image, config, size) ==
  LET rects == [k \in 1..(config.cols * config.rows) |->
                  RegionRect(image, config, Regions(config.cols, config.rows)[k])]
      Keep(rect) == RegionKept(image, rect, size)
  IN  SelectSeq(rects, Keep)

(* C14: with explicit cols and rows the grid has tileWidth
   floor(width / cols) and tileHeight floor(height / rows), and the tiles of
   the atlas are, in row-major scan order, exactly the regions (row, col) at
   (col * tileWidth, row * tileHeight) that could be extracted and are
   meaningful: at most cols * rows tiles *)
C14_RowMajor ==
  Applied("extractTiles") /\ ExplicitGrid(call.gridConfig) =>
    /\ result.grid = [cols |-> call.gridConfig.cols, rows |-> call.gridConfig.rows,
                      tileWidth |-> call.image.width \div call.gridConfig.cols,
                      tileHeight |-> call.image.height \div call.gridConfig.rows]
    /\ [i \in 1..Len(result.tiles) |-> result.tiles[i].metadata]
         = KeptRects(call.image, call.gridConfig, call.tileSize)
    /\ \A i \in 1..Len(result.tiles) :
         result.tiles[i].imageData
           = RegionBuffer(call.image, result.tiles[i].metadata, call.tileSize)
    /\ Len(result.tiles) <= call.gridConfig.cols * call.gridConfig.rows

(* C14 witness: an extraction with a custom grid of several rows and columns
   has kept tiles of different rows and columns and dropped a region in
   between *)
C14_Witness ==
  /\ Applied("extractTiles") /\ ExplicitGrid(call.gridConfig)
  /\ call.gridConfig.type = "custom"
  /\ \E i, j \in 1..Len(result.tiles) :
       /\ i < j
       /\ result.tiles[i].metadata.sourceX > result.tiles[j].metadata.sourceX
       /\ result.tiles[i].metadata.sourceY < result.tiles[j].metadata.sourceY
  /\ Len(result.tiles) < call.gridConfig.cols * call.gridConfig.rows

(* C15: in the single-file backend a custom cols x rows grid on an image
   of at least cols x rows pixels gives exactly cols * rows tiles (16 for
   4x4), in row-major order, the tile of region (row, col) with the id
   "row-col" at (col * tileWidth, row * tileHeight), all ids different *)
C15_AllTiles ==
  Applied("extractTilesSF") /\ ExplicitGrid(call.gridConfig)
    /\ call.gridConfig.type = "custom"
    /\ call.image.width >= call.gridConfig.cols
    /\ call.image.height >= call.gridConfig.rows
  =>
    /\ "tiles" \in DOMAIN result
    /\ Len(result.tiles) = call.gridConfig.cols * call.gridConfig.rows
    /\ \A k \in 1..Len(result.tiles) :
         LET region == Regions(call.gridConfig.cols, call.gridConfig.rows)[k]
         IN  /\ result.tiles[k].id = ToString(region.row) \o "-" \o ToString(region.col)
             /\ result.tiles[k].metadata = RegionRect(call.image, call.gridConfig, region)
    /\ \A i, j \in 1..Len(result.tiles) :
         result.tiles[i].id = result.tiles[j].id => i = j
    /\ (call.gridConfig.cols = 4 /\ call.gridConfig.rows = 4 => Len(result.tiles) = 16)

(* C15 witness: a 4x4 custom grid on a 5x9 image, which it does not divide,
   has given 16 tiles, the last one with id "3-3" *)
C15_Witness ==
  /\ Applied("extractTilesSF")
  /\ call.gridConfig = [type |-> "custom", cols |-> 4, rows |-> 4]
  /\ call.image.width = 5 /\ call.image.height = 9
  /\ Len(result.tiles) = 16
  /\ result.tiles[16].id = "3-3"

----------------------------------------------------------------------------
(* Properties of the single-file backend's stores (Spec)                    *)

(* C18: a lookup of an atlas (a map) whose id a successful extract-tiles
   (generate-map) response carried returns the object of that response,
   whatever requests came in between; a lookup of an id no response carried
   is answered 404 with success false and changes no store *)
C18_ReadYourWrites ==
  [][/\ Handled("atlas") =>
          IF request'.id \in DOMAIN written.atlases
            THEN response' = Ok(NoMap, written.atlases[request'.id])
            ELSE /\ response'.status = 404 /\ response'.atlas = NoAtlas
                 /\ UNCHANGED <<atlases, maps, atlasStorage>>
     /\ Handled("map") =>
          IF request'.id \in DOMAIN written.maps
            THEN response' = Ok(written.maps[request'.id], NoAtlas)
            ELSE /\ response'.status = 404 /\ response'.map = NoMap
                 /\ UNCHANGED <<atlases, maps, atlasStorage>>]_vars

(* C18 witness: after an atlas was extracted and a map generated from it, a
   lookup of the atlas has returned the atlas of the extract-tiles response *)
C18_Witness ==
  /\ request.route = "atlas"
  /\ response.status = 200
  /\ request.id \in DOMAIN written.atlases
  /\ response.atlas = written.atlases[request.id]
  /\ written.maps # <<>>

PoolSize(tilesByType, classification) ==
  IF classification \in DOMAIN tilesByType THEN Len(tilesByType[classification]) ELSE 0

(* the environment the pools select under 'auto' *)
AutoEnvironment(tilesByType) ==
  IF PoolSize(tilesByType, "wall") > 0 /\ PoolSize(tilesByType, "decoration") > 0
    THEN "nature"
    ELSE IF PoolSize(tilesByType, "wall") > PoolSize(tilesByType, "floor")
      THEN "dungeon"
      ELSE "abstract"

(* C19: a map generated by POST /generate-map with environment 'auto' has
   the cells that the strategy selected by the pools (Nature if the wall and
   decoration pools are non-empty, else Dungeon if the wall pool is larger
   than the floor pool, else abstract) lays out for the same request *)
C19_AutoStrategy ==
  [][Handled("generate-map") /\ response'.status = 200
       /\ request'.environmentType = "auto"
     => response'.map.cells
          = generateCells(request'.width, request'.height, request'.tilesByType,
                          AutoEnvironment(request'.tilesByType), request'.random)]_vars

(* C19 witness: an 'auto' request with wall and decoration tiles got a map
   that is not the Nature layout of the request *)
C19_AutoIsBasic ==
  /\ request.route = "generate-map" /\ response.status = 200
  /\ request.environmentType = "auto"
  /\ PoolSize(request.tilesByType, "wall") > 0
  /\ PoolSize(request.tilesByType, "decoration") > 0
  /\ response.map.cells
       # generateNatureLayout(request.width, request.height, request.tilesByType,
                              request.random)
  /\ response.map.cells
       = generateBasicLayout(request.width, request.height, request.tilesByType,
                             request.random)

(* the browser client's factory selects as stated *)
C19_Factory ==
  Applied("createGenerator") /\ call.environmentType = "auto" =>
    result.generator
      = [nature |-> "NatureMapGenerator", dungeon |-> "DungeonMapGenerator",
         abstract |-> "TopDownMapGenerator"][AutoEnvironment(call.tilesByType)]

----------------------------------------------------------------------------
(* Properties of the client's store (TileSpec)                              *)

Updated == call.fn = "updateTileClassification"

HasTile(atlas, tileId) == \E i \in 1..Len(atlas.tiles) : atlas.tiles[i].id = tileId

(* C20: after updateTileClassification(tileId, classification) the atlas of
   the store has the tiles it had, in the same order, each with its id,
   source rectangle, image and confidence; the tile with the id has the new
   classification and every other tile the one it had; with no atlas loaded
   or no tile of that id the store is as before *)
C20_UpdateFrame ==
  Updated =>
    IF call.before = NoAtlas \/ ~HasTile(call.before, call.tileId)
      THEN currentAtlas = call.before
      ELSE /\ DOMAIN currentAtlas = DOMAIN call.before
           /\ \A f \in DOMAIN currentAtlas \ {"tiles"} : currentAtlas[f] = call.before[f]
           /\ Len(currentAtlas.tiles) = Len(call.before.tiles)
           /\ \A i \in 1..Len(currentAtlas.tiles) :
                LET old == call.before.tiles[i]
                    new == currentAtlas.tiles[i]
                IN  /\ DOMAIN new = DOMAIN old
                    /\ \A f \in DOMAIN new \ {"classification"} : new[f] = old[f]
                    /\ new.classification
                         = IF old.id = call.tileId THEN call.classification
                           ELSE old.classification

(* C20 witness: in an atlas of several tiles the classification of one tile
   has been changed *)
C20_Witness ==
  /\ Updated
  /\ call.before # NoAtlas
  /\ Len(currentAtlas.tiles) >= 2
  /\ currentAtlas # call.before
  /\ \E i \in 1..Len(currentAtlas.tiles) :
       currentAtlas.tiles[i].classification = call.before.tiles[i].classification

(* PATCH /:id/classification writes no store of the server *)
C20_PatchFrame ==
  [][Handled("classification") => UNCHANGED <<atlasStorage, atlases, maps>>]_vars

----------------------------------------------------------------------------
(* C21: interior walls of the seeded composer.  In a returned seeded map a  *)
(* wall cell off the border of a dungeon has x % 4 = 0 or y % 4 = 0, a wall *)
(* cell off the border of a city has x % 8 = 0 and y % 8 = 0, or x % 6 = 3  *)
(* and y % 6 = 3, and with walls disabled no cell has layer wall.           *)
DungeonWallPosition(x, y) == x % 4 = 0 \/ y % 4 = 0

CityWallPosition(x, y) == (x % 8 = 0 /\ y % 8 = 0) \/ (x % 6 = 3 /\ y % 6 = 3)

InteriorWalls == {<<x, y>> \in Xs \X Ys : ~OnBorder(x, y) /\ CellAt(x, y).layer = "wall"}

C21_InteriorWalls ==
  SeededReturned =>
    /\ request.environmentType = "dungeon" =>
         \A p \in InteriorWalls : DungeonWallPosition(p[1], p[2])
    /\ request.environmentType = "city" =>
         \A p \in InteriorWalls : CityWallPosition(p[1], p[2])
    /\ ~request.enabledLayers.walls =>
         \A x \in Xs, y \in Ys : CellAt(x, y).layer # "wall"

(* a seeded city with walls enabled whose interior holds a wall cell *)
C21_Witness ==
  /\ SeededReturned
  /\ request.environmentType = "city"
  /\ request.enabledLayers.walls
  /\ InteriorWalls # {}

----------------------------------------------------------------------------
(* the rooms the structural dungeon generated for the request in flight, in
   generation order *)
Carved(p) ==
  CarveRooms(CellLayout("wall", p.width, p.height, p.tilesByType, p.random),
             p.width, p.height, p.tilesByType, p.random)

RoomsOf(p) == Carved(p).rooms

DungeonReturned == StructuralReturned /\ request.environmentType = "dungeon"

RoomInside(room, width, height) ==
  /\ 1 <= room.x /\ room.x + room.width <= width - 1
  /\ 1 <= room.y /\ room.y + room.height <= height - 1

InRoom(room, x, y) ==
  /\ room.x <= x /\ x < room.x + room.width
  /\ room.y <= y /\ y < room.y + room.height

(* C22, number and size of rooms: the structural dungeon generates exactly  *)
(* floor(width * height / 100) + 2 rooms, each with a width and a height in *)
(* 4..9.                                                                    *)
C22_RoomCount ==
  DungeonReturned =>
    LET rooms == RoomsOf(request)
    IN  /\ Len(rooms) = ((request.width * request.height) \div 100) + 2
        /\ \A i \in DOMAIN rooms :
             rooms[i].width \in 4..9 /\ rooms[i].height \in 4..9

(* C22: every room of a returned structural dungeon lies inside the grid    *)
(* with a margin of one cell (1 <= room.x, room.x + room.width <= width - 1 *)
(* and likewise for y), and no cell on the border of the grid is floor.     *)
C22_RoomsInside ==
  DungeonReturned =>
    LET rooms == RoomsOf(request)
    IN  /\ \A i \in DOMAIN rooms : RoomInside(rooms[i], request.width, request.height)
        /\ \A x \in Xs, y \in Ys : OnBorder(x, y) => CellAt(x, y).layer # "floor"

(* C22 on large grids: every room of a returned structural dungeon of      *)
(* LargeMapSize lies inside the grid with a margin of one cell, and no cell *)
(* on the border is floor.                                                  *)
C22_LargeRoomsInside ==
  (DungeonReturned /\ request.width = LargeMapSize) =>
    /\ \A i \in DOMAIN RoomsOf(request) :
         RoomInside(RoomsOf(request)[i], request.width, request.height)
    /\ \A x \in Xs, y \in Ys : OnBorder(x, y) => CellAt(x, y).layer = "wall"

(* a returned structural dungeon of an accepted size with a room that starts
   left of column 1 and a border cell inside that room that is floor *)
C22_PerimeterCarved ==
  /\ DungeonReturned
  /\ validateMapGeneration(request) = NULL
  /\ \E i \in DOMAIN RoomsOf(request) :
       /\ RoomsOf(request)[i].x < 1
       /\ \E x \in Xs, y \in Ys :
            /\ OnBorder(x, y)
            /\ InRoom(RoomsOf(request)[i], x, y)
            /\ CellAt(x, y).layer = "floor"

----------------------------------------------------------------------------
(* the grid of the request in flight after the corridor loop, before the
   decorations are placed *)
CorridorsCarved(p) ==
  DungeonCorridors(Step(Carved(p), 2), RoomsOf(p), p.width, p.height,
                   p.tilesByType, p.random).cells

Centre(room) == <<CenterX(room), CenterY(room)>>

HorizontalRun(prevRoom, currentRoom) ==
  {<<x, CenterY(prevRoom)>> :
     x \in Min(CenterX(prevRoom), CenterX(currentRoom))
            ..Max(CenterX(prevRoom), CenterX(currentRoom))}

VerticalRun(prevRoom, currentRoom) ==
  {<<CenterX(currentRoom), y>> :
     y \in Min(CenterY(prevRoom), CenterY(currentRoom))
            ..Max(CenterY(prevRoom), CenterY(currentRoom))}

(* the in-grid cells of the corridors of every pair of consecutive rooms *)
CorridorCells(rooms) ==
  (Xs \X Ys) \cap
    UNION {HorizontalRun(rooms[i - 1], rooms[i]) \cup VerticalRun(rooms[i - 1], rooms[i]) :
             i \in 2..Len(rooms)}

NonWall == {c \in Xs \X Ys : CellAt(c[1], c[2]).layer # "wall"}

Neighbours(c) ==
  {<<c[1] - 1, c[2]>>, <<c[1] + 1, c[2]>>, <<c[1], c[2] - 1>>, <<c[1], c[2] + 1>>}

(* the cells of open not seen yet that are next to a cell of frontier *)
Grown(frontier, seen, open) == (open \cap UNION {Neighbours(c) : c \in frontier}) \ seen

(* seen, with the cells of open joined to a cell of frontier by a
   4-connected path in open *)
RECURSIVE Joined(_, _, _)
Joined(frontier, seen, open) ==
  IF frontier = {}
    THEN seen
    ELSE Joined(Grown(frontier, seen, open), seen \cup Grown(frontier, seen, open), open)

CentresJoined(rooms, joined) == \A i \in DOMAIN rooms : Centre(rooms[i]) \in joined

CorridorsKept(corridor, carved) ==
  \A c \in corridor :
    /\ carved[c[2]][c[1]].layer = "floor"
    /\ CellAt(c[1], c[2]).layer \in {"floor", "decoration"}

CorridorsHold(rooms) ==
  /\ CorridorsKept(CorridorCells(rooms), CorridorsCarved(request))
  /\ CentresJoined(rooms, Joined({Centre(rooms[1])} \cap NonWall, {Centre(rooms[1])} \cap NonWall, NonWall))

(* C23: corridors of the structural dungeon.  For every pair of consecutive *)
(* rooms, every in-grid cell of the horizontal run at the previous room's   *)
(* centre row and of the vertical run at the current room's centre column   *)
(* is floor once the corridor loop has ended, later corridors included, and *)
(* is floor or decoration in the returned grid; and the centres of all      *)
(* rooms are non-wall cells joined by a 4-connected path of non-wall cells. *)
C23_Corridors == DungeonReturned => CorridorsHold(RoomsOf(request))

CorridorLeavesRooms(rooms, corridor) ==
  \E c \in corridor : \A i \in DOMAIN rooms : ~InRoom(rooms[i], c[1], c[2])

SeveralRooms(rooms) ==
  /\ Len(rooms) > 2
  /\ \A i, j \in DOMAIN rooms : i # j => Centre(rooms[i]) # Centre(rooms[j])
  /\ CorridorLeavesRooms(rooms, CorridorCells(rooms))

(* a returned dungeon of more than two rooms with distinct centres, a
   corridor cell outside every room, and a corridor cell that holds a
   decoration *)
C23_Witness ==
  /\ DungeonReturned
  /\ SeveralRooms(RoomsOf(request))
  /\ \E c \in CorridorCells(RoomsOf(request)) : CellAt(c[1], c[2]).layer = "decoration"

----------------------------------------------------------------------------
CityReturned == StructuralReturned /\ request.environmentType = "city"

OnBlockBorder(x, y) ==
  /\ x % 8 <= 5
  /\ y % 8 <= 5
  /\ (x % 8 \in {0, 5} \/ y % 8 \in {0, 5})

InStreet(x, y) == x % 8 >= 6 \/ y % 8 >= 6

InsideBlock(x, y) == x % 8 \in 1..4 /\ y % 8 \in 1..4

(* C24: structural city layout.  In the returned grid a cell is wall exactly *)
(* when x % 8 <= 5, y % 8 <= 5 and x % 8 or y % 8 is 0 or 5; every cell with *)
(* x % 8 >= 6 or y % 8 >= 6 is floor; and a decoration cell has x % 8 and    *)
(* y % 8 in 1..4.                                                            *)
C24_CityBlocks ==
  CityReturned =>
    \A x \in Xs, y \in Ys :
      /\ CellAt(x, y).layer = "wall" <=> OnBlockBorder(x, y)
      /\ InStreet(x, y) => CellAt(x, y).layer = "floor"
      /\ CellAt(x, y).layer = "decoration" => InsideBlock(x, y)

(* a returned city of LargeMapSize with a decoration and a floor cell inside
   a block that does not start at the origin, and a block cut by the edge *)
C24_Witness ==
  /\ CityReturned
  /\ request.width = LargeMapSize
  /\ \E x \in Xs, y \in Ys :
       x >= 8 /\ y >= 8 /\ InsideBlock(x, y) /\ CellAt(x, y).layer = "decoration"
  /\ \E x \in Xs, y \in Ys :
       x >= 8 /\ InsideBlock(x, y) /\ CellAt(x, y).layer = "floor"
  /\ CellAt(request.width - 1, 0).layer = "wall"
  /\ (request.width - 1) % 8 \in 1..4
----------------------------------------------------------------------------
(* Properties of the browser client's generic layout (ClientSpec)           *)

ClientMap == appState.currentMap

MapGenerated == ClientMap # NoGrid

MapHeight == Cardinality(DOMAIN ClientMap)

MapWidth == Cardinality(DOMAIN ClientMap[0])

OnMapEdge(x, y) == x = 0 \/ x = MapWidth - 1 \/ y = 0 \/ y = MapHeight - 1

(* C25: when the wall pool given to the default strategy is not empty, every
   cell on the four edges of the map it returns holds a tile of the wall
   pool: the decoration scatter never replaces a border wall *)
C25_BorderWalls ==
  MapGenerated /\ Len(observed.tilesByType.wall) > 0 =>
    \A y \in DOMAIN ClientMap : \A x \in DOMAIN ClientMap[y] :
      OnMapEdge(x, y) => ClientMap[y][x] \in Elems(observed.tilesByType.wall)

(* C25 witness: a map of the TopDownMapGenerator, generated with wall and
   decoration tiles, has a decoration tile that is no wall tile on its edge *)
C25_DecorationOnBorder ==
  /\ MapGenerated
  /\ Len(observed.tilesByType.wall) > 0
  /\ \E y \in DOMAIN ClientMap : \E x \in DOMAIN ClientMap[y] :
       /\ OnMapEdge(x, y)
       /\ ClientMap[y][x] \in Elems(observed.tilesByType.decoration)
       /\ ClientMap[y][x] \notin Elems(observed.tilesByType.wall)

(* the scatter also leaves border walls in place: a generated map with
   wall and decoration tiles whose edges are all wall *)
C25_BorderKept ==
  /\ MapGenerated
  /\ Len(observed.tilesByType.wall) > 0
  /\ Len(observed.tilesByType.decoration) > 0
  /\ \A y \in DOMAIN ClientMap : \A x \in DOMAIN ClientMap[y] :
       OnMapEdge(x, y) => ClientMap[y][x] \in Elems(observed.tilesByType.wall)

(* the server's generateBasicLayout keeps the border: every edge cell of a
   map it returned has layer 'wall' and, with a wall pool, a wall tile *)
C25_BasicLayoutBorder ==
  /\ request.route = "generate-map" /\ response.status = 200
  /\ response.map.cells
       = generateBasicLayout(request.width, request.height, request.tilesByType,
                             request.random)
  => \A y \in 0..(request.height - 1) : \A x \in 0..(request.width - 1) :
       OnBorder(x, y) =>
         /\ CellAt(x, y).layer = "wall"
         /\ PoolSize(request.tilesByType, "wall") > 0
              => CellAt(x, y).tileId \in Elems(pool(request.tilesByType, "wall"))

----------------------------------------------------------------------------
(* Independence of generation requests (Spec)                               *)

Generating == Handled("generate") \/ Handled("generate-map")

(* C26: a generation request leaves the atlas store, every stored atlas and
   every map stored by an earlier request as they were, and the cells of
   its map are those computed from the request and its atlas alone,
   whatever requests were handled before it *)
C26_Independent ==
  [][Generating =>
       /\ atlasStorage' = atlasStorage
       /\ atlases' = atlases
       /\ \A id \in DOMAIN maps : id \in DOMAIN maps' /\ maps'[id] = maps[id]
       /\ (request'.route = "generate" /\ response'.status = 200) =>
            response'.map.cells
              = generateMapCells(request', atlasStorage[request'.atlasId])
       /\ (request'.route = "generate-map" /\ response'.status = 200) =>
            response'.map.cells
              = generateCells(request'.width, request'.height, request'.tilesByType,
                              request'.environmentType, request'.random)]_vars

(* C26 witness: after a first map of POST /generate was received, a later
   request got a map with other cells from an atlas that is still stored *)
C26_Witness ==
  /\ SeededReturned
  /\ firstGen # NoGen
  /\ request.atlasId \in DOMAIN atlasStorage
  /\ response.map.cells # firstGen.cells

----------------------------------------------------------------------------
(* The wall decision of the seeded composer (Spec)                          *)

WallCells(cells) ==
  {<<x, y>> \in Xs \X Ys : cells[y][x].layer = "wall"}

SameWallInputs(p, q) ==
  /\ p.seed = q.seed
  /\ p.width = q.width
  /\ p.height = q.height
  /\ p.environmentType = q.environmentType
  /\ p.enabledLayers.walls = q.enabledLayers.walls

(* an atlas as POST /extract stores it for an image *)
AtlasOf(image) ==
  [id |-> AtlasIdPool[1],
   tiles |-> [i \in 1..Len(image) |->
                [id |-> TileIdPool[i], classification |-> image[i]]]]

(* the images of the atlases compared: no tile, or one tile of any class *)
OtherImages == SeqsUpTo(Classifications, 1)

(* C27: a map of POST /generate whose request has the seed, width, height,
   environment type and walls flag of the first map received has the wall
   cells of that map, whatever its floors and decorations flags are; and
   the same request has these wall cells with any other atlas *)
C27_WallsOnly ==
  /\ SeededReturned /\ firstGen # NoGen /\ SameWallInputs(request, firstGen.request)
       => WallCells(response.map.cells) = WallCells(firstGen.cells)
  /\ SeededReturned =>
       \A image \in OtherImages :
         WallCells(generateMapCells(request, AtlasOf(image)))
           = WallCells(response.map.cells)

(* C27 witness: such a map with the decorations layer disabled and other
   cells than the first map, which has a wall off the border *)
C27_Witness ==
  /\ SeededReturned /\ firstGen # NoGen
  /\ SameWallInputs(request, firstGen.request)
  /\ ~request.enabledLayers.decorations
  /\ response.map.cells # firstGen.cells
  /\ \E x \in Xs, y \in Ys : ~OnBorder(x, y) /\ CellAt(x, y).layer = "wall"
  /\ \E image \in OtherImages :
       generateMapCells(request, AtlasOf(image)) # response.map.cells

----------------------------------------------------------------------------
(* Properties of the browser client's tile state (ClientSpec)               *)

ValidIndex(index) == 0 <= index /\ index < Len(appState.tiles)

PoolIndices(tilesByType) ==
  UNION {Elems(tilesByType[type]) : type \in Classifications}

(* C28: every index in every pool AppState.getTilesByType returns is an
   index of the current tiles array *)
C28_ValidIndices ==
  \A index \in PoolIndices(getTilesByType(appState)) : ValidIndex(index)

(* C28 witness: tiles were assigned by hand and extracted again, and a pool
   holds an index that the tiles array no longer has *)
C28_StaleIndex ==
  /\ observed.reextracted
  /\ Len(appState.tiles) > 0
  /\ \E index \in PoolIndices(getTilesByType(appState)) : ~ValidIndex(index)

(* a map generated from such pools has a cell that names no tile *)
C28_StaleInMap ==
  /\ MapGenerated
  /\ observed.tilesByType = getTilesByType(appState)
  /\ \E y \in DOMAIN ClientMap : \E x \in DOMAIN ClientMap[y] :
       ClientMap[y][x] # NoIndex /\ ~ValidIndex(ClientMap[y][x])

(* without an extraction after an assignment the indices are valid *)
C28_ValidBeforeReextraction ==
  ~observed.reextracted => C28_ValidIndices

Manual == appState.manualClassification

NoDuplicates(seq) == \A i, j \in DOMAIN seq : seq[i] = seq[j] => i = j

(* C29: the manual pools are pairwise disjoint and hold no index twice;
   every index assigned by assignTilesToType is in the pool of its latest
   assignment and in no other, and, as long as no extraction followed an
   assignment, getTileClassification gives that pool's type for it *)
C29_Pools ==
  /\ \A type \in Classifications : NoDuplicates(Manual[type])
  /\ \A type, other \in Classifications :
       type # other => Elems(Manual[type]) \cap Elems(Manual[other]) = {}
  /\ \A index \in DOMAIN observed.assigned :
       /\ \A type \in Classifications :
            index \in Elems(Manual[type]) <=> type = observed.assigned[index]
       /\ ~observed.reextracted =>
            getTileClassification(appState, index) = observed.assigned[index]

(* C29 witness: two tiles were assigned, the latest assignments being to
   different types, one of them not the type the classifier gave the tile *)
C29_Witness ==
  /\ ~observed.reextracted
  /\ DOMAIN observed.assigned = {0, 1}
  /\ observed.assigned[0] # observed.assigned[1]
  /\ observed.assigned[0] # appState.tiles[1]
  /\ Manual[observed.assigned[0]] = <<0>>
  /\ Manual[observed.assigned[1]] = <<1>>

(* after an extraction the fresh classification of a tile can differ from
   the pool its index was assigned to *)
C29_Reclassified ==
  /\ observed.reextracted
  /\ \E index \in DOMAIN observed.assigned :
       /\ index < Len(appState.tiles)
       /\ getTileClassification(appState, index) # observed.assigned[index]

----------------------------------------------------------------------------
(* Properties of the paint handler (PaintSpec)                              *)

Cells(map) == {<<x, y>> : x \in DOMAIN map[0], y \in DOMAIN map}

(* the cells in which two maps of the same size differ *)
Changed(before, after) == {c \in Cells(before) : after[c[2]][c[1]] # before[c[2]][c[1]]}

(* C30: a step that modifies the current map is a pointer event after which
   the button is down (a mousedown, or a mousemove after a mousedown with no
   mouseup or mouseleave since), taken with paint mode enabled and a paint
   tile index set; it changes the one cell under the pointer, which lies in
   the map, to the paint tile and leaves every other cell as it was *)
C30_Paint ==
  [][appState'.currentMap # appState.currentMap =>
       /\ observed'.events = observed.events + 1
       /\ observed'.pressed
       /\ appState.paintMode
       /\ appState.paintTileIndex # NoIndex
       /\ Cells(appState'.currentMap) = Cells(appState.currentMap)
       /\ Changed(appState.currentMap, appState'.currentMap)
            = {<<observed'.pointer.x, observed'.pointer.y>>}
       /\ appState'.currentMap[observed'.pointer.y][observed'.pointer.x]
            = appState.paintTileIndex]_vars

(* C30 witness: with the button down, after a mousedown and a mousemove,
   the cell under the pointer off the border holds the paint tile, a wall
   tile that generation puts on the border only *)
C30_Witness ==
  /\ observed.pressed /\ observed.events >= 2
  /\ appState.paintMode
  /\ ~OnMapEdge(observed.pointer.x, observed.pointer.y)
  /\ <<observed.pointer.x, observed.pointer.y>> \in Cells(ClientMap)
  /\ ClientMap[observed.pointer.y][observed.pointer.x] = appState.paintTileIndex
  /\ appState.paintTileIndex \in Elems(observed.tilesByType.wall)
  /\ \E c \in Cells(ClientMap) :
       /\ c # <<observed.pointer.x, observed.pointer.y>>
       /\ ~OnMapEdge(c[1], c[2])
       /\ ClientMap[c[2]][c[1]] = appState.paintTileIndex

(* a mousemove delivered with the button up leaves the map as it is although
   paint mode is enabled and a paint tile is set *)
C30_Released ==
  /\ ~observed.pressed /\ observed.events >= 3
  /\ appState.paintMode /\ appState.paintTileIndex # NoIndex
  /\ paintModeHandler.listening /\ ~paintModeHandler.isPainting

(* isPainting outlives the listeners: it is still set after paint mode was
   switched off with the button down *)
C30_Detached ==
  paintModeHandler.isPainting /\ ~paintModeHandler.listening
====
